---- MODULE Spec2Model ----
(***************************************************************************)
(* A model of the MindForge evaluation harness:                            *)
(*   - docker/image_builder.py : build_docker_image_from_specs, the        *)
(*     per-image locks and the failed-image set;                           *)
(*   - docker/docker_utils.py  : local lookup, registry pull and push;     *)
(*   - run_instance.py         : the container life cycle of one instance; *)
(*   - evaluate.py             : the worker pool of evaluate.              *)
(* The harness runs on one asyncio event loop (Python >= 3.11, where       *)
(* asyncio.TimeoutError is the builtin TimeoutError, as                    *)
(* tests/test_evaluate.py::test_build_timeout requires): every action      *)
(* below is the code that runs between two suspension points (awaits).     *)
(***************************************************************************)
EXTENDS Integers, Sequences, FiniteSets, TLC

\* ------------------------------------------------------------- bounds
NumTasks == 2
MaxCalls == 2

NumInstances == 3
NumNodeIds == 2
MaxRecords == 2
MaxCollectors == 2
MaxTests == 2
MaxListLen == 2
MaxPatches == 11
MaxTime == 2
MaxContainerTimeout == 4
MaxUnitestTimeout == 2
MaxSetupTime == 1

Tasks == 1..NumTasks
NoTask == 0

\* The dataset: instance ids.
Instances == 1..NumInstances
NoInstance == 0
NoContainer == [state |-> "none", report |-> "none"]

\* ------------------------------------------------------- input domains
\* Repository names, as sequences of characters.
Repos == { <<"O", "/", "a">>, <<"o", "/", "a">> }

\* Python values, with their type: a str, a list, a set, a dict.
PyStr(s) == <<"str", s>>
PyList(seq) == <<"list", seq>>
PySet(S) == <<"set", S>>
PyDict(f) == <<"dict", f>>
\* What make_hashable gives for a container.
PyTuple(seq) == <<"tuple", seq>>

\* The spec dicts of the dataset: objects, passed by reference.
SpecIds == {"s1", "s2"}

InitialSpecDicts ==
    [ s1 |-> [python |-> PyStr("3.9"), pre_install |-> PyList(<<>>),
              test_cmd |-> PyStr("pytest")],
      s2 |-> [python |-> PyStr("3.9"), pre_install |-> PyList(<<PyStr("make")>>),
              test_cmd |-> PyStr("tox")] ]

\* The dataset records: every instance is of one repository; instance 2 has
\* a pre_install step, the others have none; instance 1 carries a timeout
\* of its own, the others none (0).
InstanceRepo(i) == <<"o", "/", "a">>
InstanceSpec(i) == IF i = 2 THEN "s2" ELSE "s1"
InstanceTimeout(i) == IF i = 1 THEN 60 ELSE 0

PreInstallValues ==
    { PyList(<<>>), PyList(<<PyStr("make")>>),
      PyList(<<PyStr("apt-get update"), PyStr("make")>>) }

\* ---------------------------------------------------- pure functions
\* str.lower() on one character.
LowerChar(c) == IF c = "O" THEN "o" ELSE IF c = "A" THEN "a" ELSE c

\* repo_name.lower().replace('/', '-')
NormalizeRepo(repo) ==
    [i \in 1..Len(repo) |->
        LET c == LowerChar(repo[i]) IN IF c = "/" THEN "-" ELSE c]

\* consistent_hash: the fields left out of the identity.
UnhashFields == {"install", "test_cmd", "eval_commands"}

\* The strings of the model in the order of Python's str comparison, which
\* sorted() uses on dict items and on set elements.
StrOrder ==
    <<"3.10", "3.9", "a", "apt-get update", "b", "eval_commands", "install",
      "make", "packages", "pip", "pre_install", "pytest", "python",
      "test_cmd", "tox">>

StrRank(s) == CHOOSE i \in 1..Len(StrOrder) : StrOrder[i] = s

\* sorted() on a set of strings.
RECURSIVE SortedStrs(_)
SortedStrs(S) ==
    IF S = {} THEN <<>>
    ELSE LET m == CHOOSE x \in S : \A y \in S : StrRank(x) <= StrRank(y)
         IN  <<m>> \o SortedStrs(S \ {m})

\* make_hashable, utils.py lines 168-180: a dict becomes the tuple of its
\* (key, value) pairs sorted by key, a list a tuple in the list's order, a
\* set the sorted tuple of its elements; anything else stays.
RECURSIVE make_hashable(_)
make_hashable(obj) ==
    IF obj[1] = "dict"
    THEN LET keys == SortedStrs(DOMAIN obj[2])
         IN  PyTuple([i \in 1..Len(keys) |->
                 PyTuple(<<PyStr(keys[i]), make_hashable(obj[2][keys[i]])>>)])
    ELSE IF obj[1] = "list"
    THEN PyTuple([i \in 1..Len(obj[2]) |-> make_hashable(obj[2][i])])
    ELSE IF obj[1] = "set"
    THEN LET elems == SortedStrs({ make_hashable(x)[2] : x \in obj[2] })
         IN  PyTuple([i \in 1..Len(elems) |-> PyStr(elems[i])])
    ELSE obj

\* orjson.dumps on what make_hashable gives, as the text's tokens: a str is
\* a JSON string, a tuple a JSON array.
RECURSIVE Dumps(_)
RECURSIVE DumpsItems(_, _)
DumpsItems(seq, k) ==
    IF k > Len(seq) THEN <<>>
    ELSE (IF k > 1 THEN <<",">> ELSE <<>>) \o Dumps(seq[k]) \o DumpsItems(seq, k + 1)

Dumps(h) ==
    IF h[1] = "tuple" THEN <<"[">> \o DumpsItems(h[2], 1) \o <<"]">>
    ELSE <<"\"", h[2], "\"">>

\* consistent_hash: the unhashed fields dropped, the rest made hashable and
\* serialized.  SHA-256 is taken as injective and the template text
\* DOCKER_IMAGE_COMBINED is one constant, so the serialized text stands for
\* the digest.
ConsistentHashKeepingAll(spec) == Dumps(make_hashable(PyDict(spec)))

ConsistentHash(spec) ==
    Dumps(make_hashable(PyDict([k \in DOMAIN spec \ UnhashFields |-> spec[k]])))

\* get_image_name: f"eval-{repo}-{spec_hash[:8]}"
GetImageName(repo, spec) ==
    [prefix |-> "eval", repo |-> NormalizeRepo(repo), hash |-> ConsistentHash(spec)]

\* Every image name the inputs can give.
ImageNames ==
    { GetImageName(r, [python |-> PyStr("3.9"), pre_install |-> p,
                       test_cmd |-> PyStr("pytest")]) :
        r \in Repos, p \in PreInstallValues }

\* The values a spec dict of the dataset can have: format_dockerfile may
\* have edited its pre_install list.
HarnessSpecs ==
    { [python |-> PyStr("3.9"), pre_install |-> p, test_cmd |-> tc] :
        p \in PreInstallValues, tc \in {PyStr("pytest"), PyStr("tox")} }

\* get_image_name on the repositories and spec dicts of the dataset,
\* computed once.
NameTable == { <<r, s, GetImageName(r, s)>> : r \in Repos, s \in HarnessSpecs }

ImageNameOf(repo, spec) ==
    (CHOOSE p \in NameTable : p[1] = repo /\ p[2] = spec)[3]

\* format_dockerfile on the spec's own pre_install list: an empty list is
\* replaced in a local variable only, a list without "apt-get update" gets
\* it inserted in place.
FormatDockerfilePreInstall(pre) ==
    IF pre[2] = <<>> THEN pre
    ELSE IF \E i \in 1..Len(pre[2]) : pre[2][i] = PyStr("apt-get update") THEN pre
    ELSE PyList(<<PyStr("apt-get update")>> \o pre[2])

\* ------------------------------------------------------------- state
VARIABLES
    image_build_locks,  \* image name -> the task holding its lock (NoTask: free)
    failed_images,      \* the names whose build reported an error entry
    localImages,        \* the image names tagged in the local docker daemon
    registryImages,     \* the image names the remote registry holds
    registry_config,    \* [pull_from_registry, push_to_registry]
    spec_dicts,         \* SpecIds -> the current content of each spec dict
    bpc,                \* task -> where it is in build_docker_image_from_specs
    bargs,              \* task -> the arguments and image_name of its call
    bsteps,             \* task -> what its current call has done so far
    bret,               \* task -> the outcome of its call
    buildCount,         \* image name -> images.build invocations so far
    build_logs,         \* <<image name, line>>: the error lines of each build.log
    calls               \* calls started so far

buildVars == <<image_build_locks, failed_images, localImages, registryImages,
               registry_config, spec_dicts, bpc, bargs, bsteps, bret,
               buildCount, build_logs, calls>>

NoArgs == [sid |-> "none", force_rebuild |-> FALSE, image_name |-> "none"]
\* What a call has done: lock taken (and whether the name was in
\* failed_images then), images.list answered (and whether a local image was
\* there), line 123 reached, images.build called, push attempted.
NoSteps == [acquired |-> FALSE, failedAtLock |-> FALSE, listed |-> FALSE,
            foundLocal |-> FALSE, pullCalled |-> FALSE, built |-> FALSE,
            pushed |-> "no"]
NoRet == [kind |-> "none", val |-> <<>>]

Returned(v) == [kind |-> "return", val |-> v]
Raised(e) == [kind |-> "raise", val |-> <<e>>]

\* What a call can return: the image name (a str), or the coroutine object
\* that pull_img_from_registry(...) evaluates to when it is not awaited.
StrValue(name) == <<"str", name>>
CoroutineValue(name) == <<"coroutine pull_img_from_registry", name>>

NameOf(t) == bargs[t].image_name

\* -------------------------------------------------- the other frames
VARIABLES
    rpc,                \* task -> where it is in run_instance
    rinst,              \* task -> the instance of its run_instance call
    rtimeout,           \* task -> the timeout argument of that call
    container,          \* task -> the container of that call
    rpending,           \* task -> the outcome that waits for the finally block
    rret,               \* task -> the outcome of the call
    events              \* instance -> what has happened to it, in order

runVars == <<rpc, rinst, rtimeout, container, rpending, rret, events>>

VARIABLES
    wpc,                \* worker -> where it is in evaluate_worker
    witem,              \* worker -> the queue item it holds
    queue,              \* the asyncio.Queue of evaluate
    unfinished,         \* the queue's count of items not yet task_done
    sem,                \* free permits of the semaphore
    results,            \* instance id -> recorded result
    mpc,                \* where evaluate's own coroutine is
    batch_mode,         \* evaluate's batch_mode argument
    nextChunk           \* batch mode: index of the first instance not yet submitted

evalVars == <<wpc, witem, queue, unfinished, sem, results, mpc, batch_mode,
              nextChunk>>

VARIABLES
    cpc,                        \* where the classifier's loop is
    pre_golden_round_result,    \* the visited instance: its pre-round result
    golden_round_result,        \* the visited instance: its post-round result
    crash_details,              \* the loop's local of that name
    result_entry,               \* what the loop stored for the visited instance
    todo                        \* the result pairs of the ids the loop has yet to visit

classifyVars == <<cpc, pre_golden_round_result, golden_round_result,
                  crash_details, result_entry, todo>>

VARIABLES
    gpc,                        \* whether gather_results has been applied
    pytest_report,              \* the parsed pytest_report.json
    tests,                      \* the requested test ids
    short,                      \* gather_results' argument of that name
    ignore_collector_errors,    \* gather_results' argument of that name
    test_err,                   \* the file results/test_err.txt
    gathered                    \* what gather_results returned or raised

gatherVars == <<gpc, pytest_report, tests, short, ignore_collector_errors, test_err,
               gathered>>

VARIABLES
    hpc,                        \* whether get_image_name has been applied
    repo_name,                  \* get_image_name's argument of that name
    repo_other,                 \* the repository name of the second call
    spec_a,                     \* one spec dict
    spec_b,                     \* another spec dict
    name_a,                     \* get_image_name(repo_name, spec_a)
    name_b                      \* get_image_name(repo_other, spec_b)

hashVars == <<hpc, repo_name, repo_other, spec_a, spec_b, name_a, name_b>>

VARIABLES
    epc,                        \* where the container is in eval.sh
    num_patches,                \* how many patch files /patches holds
    applied,                    \* the patches patch_codes.py has applied, in order
    patch_failed,               \* whether a patch did not apply
    ran,                        \* the commands eval.sh has run after patch_codes.py
    last_status,                \* the exit status of the last command ($?)
    exit_code,                  \* the exit status of eval.sh
    rollback_tried,             \* the patches _rollback_patches went through, in order
    reverted                    \* the patches that were reverse-applied, in order

entryVars == <<epc, num_patches, applied, patch_failed, ran, last_status, exit_code,
              rollback_tried, reverted>>

VARIABLES
    kpc,                        \* whether run_evaluate has composed its report
    returned_results,           \* what evaluate returned to run_evaluate
    items_order,                \* the order of returned_results.items()
    json_output                 \* run_evaluate's local of that name

reportVars == <<kpc, returned_results, items_order, json_output>>

VARIABLES
    fpc,                        \* where run_instance is with the entrypoint of an instance
    container_timeout,          \* run_instance's argument timeout
    unitest_timeout_max,        \* UNITEST_TIMEOUT_MAX
    spec_test_cmd,              \* spec_dict["test_cmd"]
    failfast,                   \* run_instance's argument of that name
    test_cmd,                   \* the test command of the formatted eval.sh
    hung                        \* whether a test of the run did not end by itself

scriptVars == <<fpc, container_timeout, unitest_timeout_max, spec_test_cmd, failfast,
               test_cmd, hung>>

pureVars == <<classifyVars, gatherVars, hashVars, entryVars, reportVars, scriptVars>>

vars == <<buildVars, runVars, evalVars, pureVars>>

\* ------------------------------------- build_docker_image_from_specs
\* async with image_build_locks[image_name]: an asyncio.Lock is taken at
\* once when nobody holds it, and otherwise the task waits.
LockFreeAlways(name) == TRUE

\* One lock for all the names.
LockFreeGlobal(name) ==
    \A n \in DOMAIN image_build_locks : image_build_locks[n] = NoTask

LockFree(name) == image_build_locks[name] = NoTask

\* if image_name in failed_images
KnownFailedNever(name) == FALSE

KnownFailed(name) == name \in failed_images

\* get_from_existing_image: some local tag contains image_name.
ExistingImageNever(name) == FALSE

ExistingImage(name) == name \in localImages

\* if registry_config and registry_config["pull_from_registry"]
PullEnabled == registry_config.pull_from_registry

\* if registry_config and registry_config["push_to_registry"]
PushEnabled == registry_config.push_to_registry

\* failed_images.add(image_name), on an 'error' entry of the build log.
FailedAfterLogErrorUnmarked(name) == failed_images

FailedAfterLogError(name) == failed_images \cup {name}

\* images.build(..., tag=image_name) has run to the end of its log.
LocalAfterBuildUntagged(name) == localImages

LocalAfterBuild(name) == localImages \cup {name}

\* Entry of the call: image_name is computed from the spec as it is now and
\* image_build_locks[image_name] creates the lock on first use.  Used by
\* every caller (the driver below, evaluate_worker, run_instance); a task
\* whose earlier call is over ("done") has dropped that call's outcome.
BeginBuild(t, repo, sid, force) ==
    LET name == ImageNameOf(repo, spec_dicts[sid]) IN
    /\ bpc[t] \in {"idle", "done"}
    /\ bpc' = [bpc EXCEPT ![t] = "lock"]
    /\ bargs' = [bargs EXCEPT ![t] = [sid |-> sid, force_rebuild |-> force,
                                      image_name |-> name]]
    /\ bsteps' = [bsteps EXCEPT ![t] = NoSteps]
    /\ bret' = [bret EXCEPT ![t] = NoRet]
    /\ image_build_locks' =
           IF name \in DOMAIN image_build_locks THEN image_build_locks
           ELSE [n \in DOMAIN image_build_locks \cup {name} |->
                    IF n = name THEN NoTask ELSE image_build_locks[n]]
    /\ UNCHANGED <<failed_images, localImages, registryImages, registry_config,
                   spec_dicts, buildCount, build_logs>>

\* Leaving the block with the lock kept.
LeaveHoldingLock(t, steps, outcome) ==
    /\ bpc' = [bpc EXCEPT ![t] = "done"]
    /\ bsteps' = [bsteps EXCEPT ![t] = steps]
    /\ bret' = [bret EXCEPT ![t] = outcome]
    /\ image_build_locks' = image_build_locks

\* Leaving the async with block, by return or by exception.
Leave(t, steps, outcome) ==
    /\ bpc' = [bpc EXCEPT ![t] = "done"]
    /\ bsteps' = [bsteps EXCEPT ![t] = steps]
    /\ bret' = [bret EXCEPT ![t] = outcome]
    /\ image_build_locks' = [image_build_locks EXCEPT ![NameOf(t)] = NoTask]

\* Lines 135-192: the Dockerfile is formatted (which edits the spec's
\* pre_install list in place), the context is packed and images.build is
\* called; the task then waits for the first entry of the build log.
SubmitBuild(t, steps) ==
    /\ bpc' = [bpc EXCEPT ![t] = "streaming"]
    /\ bsteps' = [bsteps EXCEPT ![t] = [steps EXCEPT !.built = TRUE]]
    /\ spec_dicts' = [spec_dicts EXCEPT ![bargs[t].sid].pre_install =
                          FormatDockerfilePreInstall(@)]
    /\ buildCount' = [buildCount EXCEPT ![NameOf(t)] = @ + 1]
    /\ UNCHANGED <<bret>>

\* Lines 105-113: the lock is taken, a failed name raises at once, and a
\* forced rebuild goes straight to the build.
Acquire(t) ==
    LET name == NameOf(t)
        steps == [bsteps[t] EXCEPT !.acquired = TRUE,
                                   !.failedAtLock = name \in failed_images]
    IN
    /\ bpc[t] = "lock"
    /\ LockFree(name)
    /\ IF KnownFailed(name)
       THEN /\ Leave(t, steps, Raised("FailedBefore"))
            /\ UNCHANGED <<spec_dicts, buildCount>>
       ELSE IF ~bargs[t].force_rebuild
       THEN /\ bpc' = [bpc EXCEPT ![t] = "list"]
            /\ bsteps' = [bsteps EXCEPT ![t] = steps]
            /\ image_build_locks' = [image_build_locks EXCEPT ![name] = t]
            /\ UNCHANGED <<spec_dicts, buildCount, bret>>
       ELSE /\ SubmitBuild(t, steps)
            /\ image_build_locks' = [image_build_locks EXCEPT ![name] = t]
    /\ UNCHANGED <<failed_images, localImages, registryImages, registry_config,
                   bargs, build_logs, calls, runVars, evalVars, pureVars>>

\* Lines 113-131: the answer of images.list arrives.  A local image is
\* returned; with pull enabled the call returns pull_img_from_registry(...)
\* without awaiting it, so the pull itself never runs and the value
\* returned is the coroutine object; otherwise the build is submitted.
ListLocal(t) ==
    LET name == NameOf(t)
        steps == [bsteps[t] EXCEPT !.listed = TRUE,
                                   !.foundLocal = name \in localImages]
    IN
    /\ bpc[t] = "list"
    /\ IF ExistingImage(name)
       THEN /\ Leave(t, steps, Returned(StrValue(name)))
            /\ UNCHANGED <<spec_dicts, buildCount>>
       ELSE IF PullEnabled
       THEN /\ Leave(t, [steps EXCEPT !.pullCalled = TRUE],
                     Returned(CoroutineValue(name)))
            /\ UNCHANGED <<spec_dicts, buildCount>>
       ELSE /\ SubmitBuild(t, steps)
            /\ UNCHANGED <<image_build_locks>>
    /\ UNCHANGED <<failed_images, localImages, registryImages, registry_config,
                   bargs, build_logs, calls, runVars, evalVars, pureVars>>

\* Lines 197-224: the build log ends without an error entry, the image is
\* tagged image_name; without push the name is returned.
BuildSucceeds(t) ==
    /\ bpc[t] = "streaming"
    /\ localImages' = LocalAfterBuild(NameOf(t))
    /\ IF PushEnabled
       THEN /\ bpc' = [bpc EXCEPT ![t] = "push"]
            /\ UNCHANGED <<bsteps, bret, image_build_locks>>
       ELSE Leave(t, bsteps[t], Returned(StrValue(NameOf(t))))
    /\ UNCHANGED <<failed_images, registryImages, registry_config, spec_dicts,
                   bargs, buildCount, build_logs, calls, runVars, evalVars, pureVars>>

\* Lines 200-204: an 'error' entry of the build log.
BuildLogError(t) ==
    /\ bpc[t] = "streaming"
    /\ failed_images' = FailedAfterLogError(NameOf(t))
    /\ Leave(t, bsteps[t], Raised("BuildFailed"))
    /\ build_logs' = build_logs \cup {<<NameOf(t), <<"Error">>>>}
    /\ UNCHANGED <<localImages, registryImages, registry_config, spec_dicts,
                   bargs, buildCount, calls, runVars, evalVars, pureVars>>

\* Lines 205-207: DockerError while the log is streamed.
BuildDockerError(t) ==
    /\ bpc[t] = "streaming"
    /\ Leave(t, bsteps[t], Raised("DockerError"))
    /\ build_logs' = build_logs \cup {<<NameOf(t), <<"Failed to fetch the logs">>>>}
    /\ UNCHANGED <<failed_images, localImages, registryImages, registry_config,
                   spec_dicts, bargs, buildCount, calls, runVars, evalVars, pureVars>>

\* evaluate.py line 47: ClientTimeout(total=timeout), with evaluate's
\* default of 300 (line 29).
ClientTimeoutTotal == 300

\* Line 209: f"Build timeout after {client.session.timeout.total} seconds."
BuildTimeoutMessage(total) == <<"Build timeout after", total, "seconds.">>

BuildTimeoutRaised == [kind |-> "raise", val |-> BuildTimeoutMessage(ClientTimeoutTotal)]

\* Lines 208-211: the client's timeout expires while the log is streamed;
\* the message is written to build.log in the directory of image_name and
\* raised.
BuildTimeout(t) ==
    /\ bpc[t] = "streaming"
    /\ Leave(t, bsteps[t], BuildTimeoutRaised)
    /\ build_logs' = build_logs \cup {<<NameOf(t), BuildTimeoutMessage(ClientTimeoutTotal)>>}
    /\ UNCHANGED <<failed_images, localImages, registryImages, registry_config,
                   spec_dicts, bargs, buildCount, calls, runVars, evalVars, pureVars>>

\* push_img_to_registry succeeds: the registry holds the image, the
\* registry tag is deleted again, the name is returned (lines 221-224).
PushSucceeds(t) ==
    /\ bpc[t] = "push"
    /\ registryImages' = registryImages \cup {NameOf(t)}
    /\ Leave(t, [bsteps[t] EXCEPT !.pushed = "ok"], Returned(StrValue(NameOf(t))))
    /\ UNCHANGED <<failed_images, localImages, registry_config, spec_dicts,
                   bargs, buildCount, build_logs, calls, runVars, evalVars, pureVars>>

\* push_img_to_registry fails (tag, login or push): it logs and re-raises,
\* and line 222 lets the exception leave the call.
PushFails(t) ==
    /\ bpc[t] = "push"
    /\ Leave(t, [bsteps[t] EXCEPT !.pushed = "failed"], Raised("PushFailed"))
    /\ UNCHANGED <<failed_images, localImages, registryImages, registry_config,
                   spec_dicts, bargs, buildCount, build_logs, calls, runVars,
                   evalVars, pureVars>>

\* clean_up_images: failed names are skipped; for the others the lookup is
\* not awaited, so `name` is a coroutine object and the delete request
\* names no image: DockerError, caught.  Nothing changes.
CleanUpImages ==
    /\ DOMAIN image_build_locks # {}
    /\ UNCHANGED vars

\* ---------------------------------------------- Spec: concurrent calls
\* A task calls build_docker_image_from_specs (build_all_images,
\* build_a_spec, or any other caller), with any arguments.
BuildCall(t, repo, sid, force) ==
    /\ rpc[t] = "none"
    /\ calls < MaxCalls
    /\ BeginBuild(t, repo, sid, force)
    /\ calls' = calls + 1
    /\ UNCHANGED <<runVars, evalVars, pureVars>>

\* ------------------------------------------------------ initial state
BuildInit ==
    /\ image_build_locks = <<>>
    /\ failed_images = {}
    /\ localImages = {}
    /\ registryImages = {}
    /\ registry_config \in [pull_from_registry : BOOLEAN, push_to_registry : BOOLEAN]
    /\ spec_dicts = InitialSpecDicts
    /\ bpc = [t \in Tasks |-> "idle"]
    /\ bargs = [t \in Tasks |-> NoArgs]
    /\ bsteps = [t \in Tasks |-> NoSteps]
    /\ bret = [t \in Tasks |-> NoRet]
    /\ buildCount = [n \in ImageNames |-> 0]
    /\ build_logs = {}
    /\ calls = 0

RunIdle ==
    /\ rpc = [t \in Tasks |-> "none"]
    /\ rinst = [t \in Tasks |-> NoInstance]
    /\ rtimeout = [t \in Tasks |-> 0]
    /\ container = [t \in Tasks |-> NoContainer]
    /\ rpending = [t \in Tasks |-> NoRet]
    /\ rret = [t \in Tasks |-> NoRet]
    /\ events = [i \in Instances |-> <<>>]

EvalIdle ==
    /\ wpc = [t \in Tasks |-> "none"]
    /\ witem = [t \in Tasks |-> NoInstance]
    /\ queue = <<>>
    /\ unfinished = 0
    /\ sem = 0
    /\ results = <<>>
    /\ mpc = "none"
    /\ batch_mode = FALSE
    /\ nextChunk = 0

\* Neither the classifier nor gather_results has been called.
NoResult == [absent |-> TRUE]
Unbound == [bound |-> FALSE, val |-> <<>>]

ClassifyIdle ==
    /\ cpc = "none"
    /\ pre_golden_round_result = NoResult
    /\ golden_round_result = NoResult
    /\ crash_details = Unbound
    /\ result_entry = NoResult
    /\ todo = <<>>

GatherIdle ==
    /\ gpc = "none"
    /\ pytest_report = NoResult
    /\ tests = <<>>
    /\ short = TRUE
    /\ ignore_collector_errors = TRUE
    /\ test_err = <<>>
    /\ gathered = NoRet

NoName == [prefix |-> "none", repo |-> <<>>, hash |-> <<>>]

HashIdle ==
    /\ hpc = "none"
    /\ repo_name = <<>>
    /\ repo_other = <<>>
    /\ spec_a = <<>>
    /\ spec_b = <<>>
    /\ name_a = NoName
    /\ name_b = NoName

NoStatus == 0 - 1

EntryIdle ==
    /\ epc = "none"
    /\ num_patches = 0
    /\ applied = <<>>
    /\ patch_failed = FALSE
    /\ ran = <<>>
    /\ last_status = NoStatus
    /\ exit_code = NoStatus
    /\ rollback_tried = <<>>
    /\ reverted = <<>>

ReportIdle ==
    /\ kpc = "none"
    /\ returned_results = <<>>
    /\ items_order = <<>>
    /\ json_output = NoResult

\* A test command: the program, its options, the value of --timeout (none
\* or one) and the test ids it is given; `echo` tells whether it comes
\* after "echo 'No test to run' &&".
NoCmd == [echo |-> FALSE, base |-> "none", flags |-> <<>>, timeout |-> <<>>, targets |-> <<>>]

ScriptIdle ==
    /\ fpc = "none"
    /\ container_timeout = 0
    /\ unitest_timeout_max = 0
    /\ spec_test_cmd = NoCmd
    /\ failfast = FALSE
    /\ test_cmd = NoCmd
    /\ hung = FALSE

PureIdle ==
    ClassifyIdle /\ GatherIdle /\ HashIdle /\ EntryIdle /\ ReportIdle /\ ScriptIdle

Init == BuildInit /\ RunIdle /\ EvalIdle /\ PureIdle

BuildStep(t) ==
    \/ Acquire(t)
    \/ ListLocal(t)
    \/ BuildSucceeds(t)
    \/ BuildLogError(t)
    \/ BuildDockerError(t)
    \/ BuildTimeout(t)
    \/ PushSucceeds(t)
    \/ PushFails(t)

Next ==
    \/ \E t \in Tasks, repo \in Repos, sid \in SpecIds, force \in BOOLEAN :
          BuildCall(t, repo, sid, force)
    \/ \E t \in Tasks : BuildStep(t)
    \/ CleanUpImages

Spec == Init /\ [][Next]_vars

\* The event loop runs every task that can go on: an awaited operation of
\* the container runtime ends (with a result, an error or the client's
\* timeout), and asyncio.Lock wakes its waiters first come, first served,
\* so a task at the lock that is free again and again gets it.
BuildFairness ==
    \A t \in Tasks : WF_vars(BuildStep(t)) /\ SF_vars(Acquire(t))

SpecBuildFair == Init /\ [][Next]_vars /\ BuildFairness

\* ------------------------------------------------------- run_instance
\* What the container's test run can leave in pytest_report.json: nothing,
\* a report whose tests all pass, a report with a failing test.
ReportKinds == {"empty", "pass", "fail"}

\* raise TimeoutError(f"Container timed out after {timeout} seconds.")
ContainerTimeout(timeout) == <<"TimeoutError: Container timed out after", timeout>>

Log(i, e) == [events EXCEPT ![i] = Append(@, e)]

Happened(i, e) == \E k \in 1..Len(events[i]) : events[i][k] = e

\* e1 happened, and e2 did not happen before it.
Before(i, e1, e2) ==
    \E k \in 1..Len(events[i]) :
        events[i][k] = e1 /\ \A j \in 1..(k-1) : events[i][j] # e2

\* Lines 209-217: run_instance starts by asking for the image, never forced.
BeginRun(t, i, timeout) ==
    /\ rpc[t] \in {"none", "done"}
    /\ rpc' = [rpc EXCEPT ![t] = "build"]
    /\ rinst' = [rinst EXCEPT ![t] = i]
    /\ rtimeout' = [rtimeout EXCEPT ![t] = timeout]
    /\ container' = [container EXCEPT ![t] = NoContainer]
    /\ rpending' = [rpending EXCEPT ![t] = NoRet]
    /\ rret' = [rret EXCEPT ![t] = NoRet]
    /\ events' = Log(i, "run")
    /\ BeginBuild(t, InstanceRepo(i), InstanceSpec(i), FALSE)

\* The build frame of task t is dropped.
DropBuild(t) ==
    /\ bpc' = [bpc EXCEPT ![t] = "idle"]
    /\ bargs' = [bargs EXCEPT ![t] = NoArgs]
    /\ bsteps' = [bsteps EXCEPT ![t] = NoSteps]
    /\ bret' = [bret EXCEPT ![t] = NoRet]
    /\ UNCHANGED <<image_build_locks, failed_images, localImages, registryImages,
                   registry_config, spec_dicts, buildCount, build_logs, calls>>

\* run_instance is over, without a container to clean up.
RunEnds(t, outcome) ==
    /\ rpc' = [rpc EXCEPT ![t] = "done"]
    /\ rret' = [rret EXCEPT ![t] = outcome]
    /\ UNCHANGED <<rinst, rtimeout, rpending>>

\* The build call is over and the container is asked for, whether the call
\* raised or not.
RunAfterBuildIgnoringFailure(t) ==
    /\ rpc[t] = "build"
    /\ bpc[t] = "done"
    /\ DropBuild(t)
    /\ rpc' = [rpc EXCEPT ![t] = "creating"]
    /\ container' = [container EXCEPT ![t].report = "empty"]
    /\ events' = IF bret[t].kind = "raise" THEN events ELSE Log(rinst[t], "image")
    /\ UNCHANGED <<rinst, rtimeout, rpending, rret>>
    /\ UNCHANGED <<evalVars, pureVars>>

\* Lines 209-280: the build call is over.  Its exception leaves
\* run_instance; otherwise the patch files, the empty report file and
\* eval.sh are written, the container name is made from image_name (line
\* 279: .replace, which a coroutine object does not have) and
\* create_or_replace is called.
RunAfterBuild(t) ==
    /\ rpc[t] = "build"
    /\ bpc[t] = "done"
    /\ DropBuild(t)
    /\ IF bret[t].kind = "raise"
       THEN /\ RunEnds(t, bret[t])
            /\ UNCHANGED <<container, events>>
       ELSE IF bret[t].val[1] # "str"
       THEN /\ RunEnds(t, Raised("AttributeError"))
            /\ events' = Log(rinst[t], "image")
            /\ UNCHANGED <<container>>
       ELSE /\ rpc' = [rpc EXCEPT ![t] = "creating"]
            /\ container' = [container EXCEPT ![t].report = "empty"]
            /\ events' = Log(rinst[t], "image")
            /\ UNCHANGED <<rinst, rtimeout, rpending, rret>>
    /\ UNCHANGED <<evalVars, pureVars>>

\* Line 280-281: the container exists; container.start() is called.
CreateSucceeds(t) ==
    /\ rpc[t] = "creating"
    /\ rpc' = [rpc EXCEPT ![t] = "starting"]
    /\ container' = [container EXCEPT ![t].state = "created"]
    /\ events' = Log(rinst[t], "create")
    /\ UNCHANGED <<rinst, rtimeout, rpending, rret, buildVars, evalVars, pureVars>>

\* Line 280: create_or_replace raises.
CreateFails(t) ==
    /\ rpc[t] = "creating"
    /\ RunEnds(t, Raised("DockerError"))
    /\ UNCHANGED <<container, events, buildVars, evalVars, pureVars>>

\* Lines 281-286: the container runs; the try block is entered and
\* container.wait() is awaited under wait_for.
StartSucceeds(t) ==
    /\ rpc[t] = "starting"
    /\ rpc' = [rpc EXCEPT ![t] = "waiting"]
    /\ container' = [container EXCEPT ![t].state = "running"]
    /\ events' = Log(rinst[t], "start")
    /\ UNCHANGED <<rinst, rtimeout, rpending, rret, buildVars, evalVars, pureVars>>

\* Line 281: container.start() raises, before the try block: the
\* exception leaves run_instance and nothing deletes the container.
StartFails(t) ==
    /\ rpc[t] = "starting"
    /\ RunEnds(t, Raised("DockerError"))
    /\ UNCHANGED <<container, events, buildVars, evalVars, pureVars>>

\* The finally block (lines 307-312): container.delete(force=True) is
\* called while `outcome` waits.
Finally(t, outcome, evs) ==
    /\ rpc' = [rpc EXCEPT ![t] = "deleting"]
    /\ rpending' = [rpending EXCEPT ![t] = outcome]
    /\ events' = [events EXCEPT ![rinst[t]] = evs \o <<"delete">>]
    /\ UNCHANGED <<rinst, rtimeout, rret>>

\* Lines 286, 297: the container exits in time, leaving its report;
\* container.log is called.
WaitExits(t, r) ==
    /\ rpc[t] = "waiting"
    /\ rpc' = [rpc EXCEPT ![t] = "logs"]
    /\ container' = [container EXCEPT ![t] = [state |-> "exited", report |-> r]]
    /\ events' = Log(rinst[t], "exit")
    /\ UNCHANGED <<rinst, rtimeout, rpending, rret, buildVars, evalVars, pureVars>>

\* Lines 287-288: wait_for raises TimeoutError; container.kill() is called.
WaitTimesOut(t) ==
    /\ rpc[t] = "waiting"
    /\ rpc' = [rpc EXCEPT ![t] = "killing"]
    /\ events' = [events EXCEPT ![rinst[t]] = @ \o <<"timeout", "kill">>]
    /\ UNCHANGED <<rinst, rtimeout, container, rpending, rret, buildVars, evalVars, pureVars>>

\* Lines 288-290: the kill is done; container.log is called.
KillSucceeds(t) ==
    /\ rpc[t] = "killing"
    /\ rpc' = [rpc EXCEPT ![t] = "timeout_logs"]
    /\ container' = [container EXCEPT ![t].state = "killed"]
    /\ events' = Log(rinst[t], "killed")
    /\ UNCHANGED <<rinst, rtimeout, rpending, rret, buildVars, evalVars, pureVars>>

\* Line 288: container.kill() raises; the exception goes to the finally.
KillFails(t) ==
    /\ rpc[t] = "killing"
    /\ Finally(t, Raised("DockerError"), events[rinst[t]] \o <<"kill failed">>)
    /\ UNCHANGED <<container, buildVars, evalVars, pureVars>>

\* Lines 290-294: the logs of the killed container arrive and
\* TimeoutError is raised.
TimeoutLogsSucceed(t) ==
    /\ rpc[t] = "timeout_logs"
    /\ Finally(t, [kind |-> "raise", val |-> ContainerTimeout(rtimeout[t])],
               events[rinst[t]])
    /\ UNCHANGED <<container, buildVars, evalVars, pureVars>>

\* Line 290: container.log raises after the kill.
TimeoutLogsFail(t) ==
    /\ rpc[t] = "timeout_logs"
    /\ Finally(t, Raised("DockerError"), events[rinst[t]] \o <<"log failed">>)
    /\ UNCHANGED <<container, buildVars, evalVars, pureVars>>

\* gather_results on the report file (lines 74-130): an empty file raises
\* Exception, a report is returned as the short map (here: whether all of
\* its tests passed).
GatherResults(report) ==
    IF report = "empty"
    THEN Raised("Exception: Error while generating the test reports.")
    ELSE Returned(<<"tests", report = "pass">>)

\* Lines 297-301: the logs arrive and the report is parsed.
LogsSucceed(t) ==
    /\ rpc[t] = "logs"
    /\ Finally(t, GatherResults(container[t].report),
               events[rinst[t]] \o
                   (IF GatherResults(container[t].report).kind = "raise"
                    THEN <<"parse", "parse failed">> ELSE <<"parse">>))
    /\ UNCHANGED <<container, buildVars, evalVars, pureVars>>

\* Line 297: container.log raises.
LogsFail(t) ==
    /\ rpc[t] = "logs"
    /\ Finally(t, Raised("DockerError"), events[rinst[t]] \o <<"log failed">>)
    /\ UNCHANGED <<container, buildVars, evalVars, pureVars>>

\* Lines 303-305: KeyboardInterrupt while the container is awaited; the
\* handler calls container.delete(force=True).
Interrupt(t) ==
    /\ rpc[t] = "waiting"
    /\ rpc' = [rpc EXCEPT ![t] = "interrupted"]
    /\ events' = [events EXCEPT ![rinst[t]] = @ \o <<"interrupt", "delete">>]
    /\ UNCHANGED <<rinst, rtimeout, container, rpending, rret, buildVars, evalVars, pureVars>>

\* Lines 305-310: the handler's delete is over (done, or failed and its
\* exception replaces the interrupt); the finally block deletes again.
InterruptDeleteDone(t, ok) ==
    /\ rpc[t] = "interrupted"
    /\ container' = [container EXCEPT ![t].state = IF ok THEN "removed" ELSE @]
    /\ Finally(t, Raised(IF ok THEN "KeyboardInterrupt" ELSE "DockerError"),
               events[rinst[t]])
    /\ UNCHANGED <<buildVars, evalVars, pureVars>>

\* Line 310: the delete is done; the waiting outcome leaves run_instance.
DeleteSucceeds(t) ==
    /\ rpc[t] = "deleting"
    /\ container[t].state # "removed"
    /\ container' = [container EXCEPT ![t].state = "removed"]
    /\ rpc' = [rpc EXCEPT ![t] = "done"]
    /\ rret' = [rret EXCEPT ![t] = rpending[t]]
    /\ UNCHANGED <<rinst, rtimeout, rpending, events, buildVars, evalVars, pureVars>>

\* Lines 311-312: the delete raises; it is logged and otherwise ignored.
DeleteFails(t) ==
    /\ rpc[t] = "deleting"
    /\ rpc' = [rpc EXCEPT ![t] = "done"]
    /\ rret' = [rret EXCEPT ![t] = rpending[t]]
    /\ UNCHANGED <<rinst, rtimeout, container, rpending, events, buildVars, evalVars, pureVars>>

RunStep(t) ==
    \/ RunAfterBuild(t)
    \/ CreateSucceeds(t)
    \/ CreateFails(t)
    \/ StartSucceeds(t)
    \/ StartFails(t)
    \/ \E r \in ReportKinds : WaitExits(t, r)
    \/ WaitTimesOut(t)
    \/ KillSucceeds(t)
    \/ KillFails(t)
    \/ TimeoutLogsSucceed(t)
    \/ TimeoutLogsFail(t)
    \/ LogsSucceed(t)
    \/ LogsFail(t)
    \/ DeleteSucceeds(t)
    \/ DeleteFails(t)

\* ------------------------------- SpecRun: run_instance called directly
\* server.py, run_on_instance: a request runs one instance with the
\* server's timeout.
ServerTimeout == 300

RunCall(t, i) ==
    /\ wpc[t] = "none"
    /\ events[i] = <<>>
    /\ BeginRun(t, i, ServerTimeout)
    /\ UNCHANGED <<calls, evalVars, pureVars>>

RunNext ==
    \/ \E t \in Tasks, i \in Instances : RunCall(t, i)
    \/ \E t \in Tasks : BuildStep(t)
    \/ \E t \in Tasks : RunStep(t)
    \/ \E t \in Tasks : Interrupt(t)
    \/ \E t \in Tasks, ok \in BOOLEAN : InterruptDeleteDone(t, ok)

SpecRun == Init /\ [][RunNext]_vars

\* ----------------------------------------------------------- evaluate
\* Line 29: the default of evaluate's timeout argument.
EvaluateTimeout == 300

\* Line 94: instance_args.get("timeout") or timeout.
EffectiveTimeout(i) ==
    IF InstanceTimeout(i) # 0 THEN InstanceTimeout(i) ELSE EvaluateTimeout

\* Line 125: max_workers worker tasks; line 54: as many permits.
max_workers == NumTasks

\* Line 120: {"error": str(e), "traceback": tb}.
ErrorResult(e) == [error |-> e, traceback |-> e]

\* Lines 108-111: {"tests": result, "time": ...}.
ShortResult(r) == [tests |-> r]

IsErrorNever(res) == FALSE

IsError(res) == "error" \in DOMAIN res

RecordAlone(i, res) == [j \in {i} |-> res]

Record(i, res) ==
    [j \in DOMAIN results \cup {i} |-> IF j = i THEN res ELSE results[j]]

\* instance_datas[i:i+max_workers]
Batch(first) == { i \in Instances : i >= first /\ i < first + max_workers }

LastOfBatchWhole(first) == NumInstances

\* Lines 135-136: the last instance of instance_datas[i:i+max_workers].
LastOfBatch(first) ==
    IF first + max_workers - 1 < NumInstances
    THEN first + max_workers - 1 ELSE NumInstances

RECURSIVE SeqOfRange(_, _)
SeqOfRange(a, b) == IF a > b THEN <<>> ELSE <<a>> \o SeqOfRange(a + 1, b)

\* Lines 121-123 and the loop back to queue.get (line 65).
WorkerFinally(w) ==
    /\ unfinished' = unfinished - 1
    /\ wpc' = [wpc EXCEPT ![w] = "get"]
    /\ witem' = [witem EXCEPT ![w] = NoInstance]

\* Lines 65-81: the worker takes an item.  The sentinel ends it (break,
\* through the finally); an instance takes a permit of the semaphore, or
\* waits for one, and calls build_docker_image_from_specs.
WorkerGet(w) ==
    /\ wpc[w] \in {"get", "sem"}
    /\ IF wpc[w] = "get"
       THEN /\ queue # <<>>
            /\ queue' = Tail(queue)
            /\ witem' = [witem EXCEPT ![w] = Head(queue)]
       ELSE /\ sem > 0
            /\ UNCHANGED <<queue, witem>>
    /\ LET item == IF wpc[w] = "get" THEN Head(queue) ELSE witem[w] IN
       IF item = NoInstance
       THEN /\ wpc' = [wpc EXCEPT ![w] = "exit"]
            /\ unfinished' = unfinished - 1
            /\ UNCHANGED <<sem, buildVars>>
       ELSE IF sem = 0
       THEN /\ wpc' = [wpc EXCEPT ![w] = "sem"]
            /\ UNCHANGED <<sem, unfinished, buildVars>>
       ELSE /\ wpc' = [wpc EXCEPT ![w] = "build"]
            /\ sem' = sem - 1
            /\ BeginBuild(w, InstanceRepo(item), InstanceSpec(item), FALSE)
            /\ UNCHANGED <<unfinished, calls>>
    /\ UNCHANGED <<results, mpc, batch_mode, nextChunk, runVars>>
    /\ UNCHANGED pureVars

\* Lines 73-94, 115-123: the worker's own build call is over.  Its value
\* is dropped and run_instance is called; its exception is recorded.
WorkerAfterBuild(w) ==
    /\ wpc[w] = "build"
    /\ bpc[w] = "done"
    /\ IF bret[w].kind = "raise"
       THEN /\ results' = Record(witem[w], ErrorResult(bret[w].val))
            /\ sem' = sem + 1
            /\ WorkerFinally(w)
            /\ DropBuild(w)
            /\ UNCHANGED runVars
       ELSE /\ wpc' = [wpc EXCEPT ![w] = "run"]
            /\ BeginRun(w, witem[w], EffectiveTimeout(witem[w]))
            /\ UNCHANGED <<results, sem, unfinished, witem, calls>>
    /\ UNCHANGED <<queue, mpc, batch_mode, nextChunk>>
    /\ UNCHANGED pureVars

\* Lines 85-123: run_instance is over; its value or its exception is
\* recorded, the permit is given back and the item is marked done.
WorkerAfterRun(w) ==
    /\ wpc[w] = "run"
    /\ rpc[w] = "done"
    /\ results' = Record(witem[w],
                         IF rret[w].kind = "raise" THEN ErrorResult(rret[w].val)
                         ELSE ShortResult(rret[w].val))
    /\ sem' = sem + 1
    /\ WorkerFinally(w)
    /\ rpc' = [rpc EXCEPT ![w] = "none"]
    /\ rinst' = [rinst EXCEPT ![w] = NoInstance]
    /\ rtimeout' = [rtimeout EXCEPT ![w] = 0]
    /\ container' = [container EXCEPT ![w] = NoContainer]
    /\ rpending' = [rpending EXCEPT ![w] = NoRet]
    /\ rret' = [rret EXCEPT ![w] = NoRet]
    /\ UNCHANGED <<events, queue, mpc, batch_mode, nextChunk, buildVars>>
    /\ UNCHANGED pureVars

\* Lines 127-131, 135-140: the instances, or the next batch of them, are
\* put on the queue and evaluate waits in queue.join().
Put ==
    /\ mpc = "put"
    /\ LET last == IF batch_mode THEN LastOfBatch(nextChunk) ELSE NumInstances
       IN /\ queue' = queue \o SeqOfRange(nextChunk, last)
          /\ unfinished' = unfinished + (last - nextChunk + 1)
    /\ mpc' = "join"
    /\ UNCHANGED <<wpc, witem, sem, results, batch_mode, nextChunk, buildVars, runVars>>
    /\ UNCHANGED pureVars

\* Lines 131, 140-145: queue.join() returns when every item put is done.
\* Batch mode then stops if every instance of the batch has an error, and
\* goes to the next batch otherwise.
JoinReturns ==
    /\ mpc = "join"
    /\ unfinished = 0
    /\ IF /\ batch_mode
          /\ ~ \A i \in Batch(nextChunk) : IsError(results[i])
          /\ nextChunk + max_workers <= NumInstances
       THEN /\ mpc' = "put"
            /\ nextChunk' = nextChunk + max_workers
       ELSE /\ mpc' = "release"
            /\ UNCHANGED nextChunk
    /\ UNCHANGED <<wpc, witem, queue, unfinished, sem, results, batch_mode,
                   buildVars, runVars>>
    /\ UNCHANGED pureVars

\* One sentinel fewer than there are workers.
ReleaseOneFewer ==
    /\ mpc = "release"
    /\ queue' = queue \o [k \in 1..(max_workers - 1) |-> NoInstance]
    /\ unfinished' = unfinished + max_workers - 1
    /\ mpc' = "gather"
    /\ UNCHANGED <<wpc, witem, sem, results, batch_mode, nextChunk, buildVars, runVars>>
    /\ UNCHANGED pureVars

\* Lines 148-149: one sentinel for each worker.
Release ==
    /\ mpc = "release"
    /\ queue' = queue \o [k \in 1..max_workers |-> NoInstance]
    /\ unfinished' = unfinished + max_workers
    /\ mpc' = "gather"
    /\ UNCHANGED <<wpc, witem, sem, results, batch_mode, nextChunk, buildVars, runVars>>
    /\ UNCHANGED pureVars

\* Lines 151-153: every worker has ended; results is returned.
Return ==
    /\ mpc = "gather"
    /\ \A w \in Tasks : wpc[w] = "exit"
    /\ mpc' = "returned"
    /\ UNCHANGED <<wpc, witem, queue, unfinished, sem, results, batch_mode,
                   nextChunk, buildVars, runVars>>
    /\ UNCHANGED pureVars

EvalStartOnePermitMore ==
    /\ wpc = [w \in Tasks |-> "get"]
    /\ witem = [w \in Tasks |-> NoInstance]
    /\ queue = <<>>
    /\ unfinished = 0
    /\ sem = max_workers + 1
    /\ results = <<>>
    /\ mpc = "put"
    /\ batch_mode \in BOOLEAN
    /\ nextChunk = 1

\* Lines 54-56, 125: evaluate has made the semaphore, the queue, the
\* results and the workers.
EvalStart ==
    /\ wpc = [w \in Tasks |-> "get"]
    /\ witem = [w \in Tasks |-> NoInstance]
    /\ queue = <<>>
    /\ unfinished = 0
    /\ sem = max_workers
    /\ results = <<>>
    /\ mpc = "put"
    /\ batch_mode \in BOOLEAN
    /\ nextChunk = 1

EvalInit == BuildInit /\ RunIdle /\ EvalStart /\ PureIdle

EvalNext ==
    \/ Put
    \/ JoinReturns
    \/ Release
    \/ Return
    \/ \E w \in Tasks : WorkerGet(w)
    \/ \E w \in Tasks : WorkerAfterBuild(w)
    \/ \E w \in Tasks : WorkerAfterRun(w)
    \/ \E t \in Tasks : BuildStep(t)
    \/ \E t \in Tasks : RunStep(t)

SpecEval == EvalInit /\ [][EvalNext]_vars

\* evaluate's own coroutine, lines 127-153.
MainStep == Put \/ JoinReturns \/ Release \/ Return

\* One worker's coroutine, with the calls it awaits.
WorkerStep(w) ==
    \/ WorkerGet(w)
    \/ WorkerAfterBuild(w)
    \/ WorkerAfterRun(w)
    \/ BuildStep(w)
    \/ RunStep(w)

\* The event loop runs every coroutine that can go on, every build and
\* every container operation ends, and asyncio.Lock serves its waiters in
\* order.
EvalFairness ==
    /\ WF_vars(MainStep)
    /\ \A w \in Tasks : WF_vars(WorkerStep(w)) /\ SF_vars(Acquire(w))

\* evaluate with a registry in use: GLOBAL_REGISTRY_CONFIG pulls or pushes,
\* so that a build goes through every step it has.
EvalFairInit ==
    /\ EvalInit
    /\ registry_config.pull_from_registry \/ registry_config.push_to_registry

SpecEvalFair == EvalFairInit /\ [][EvalNext]_vars /\ EvalFairness

\* ------------------------------------------- produce.py: gather_results
\* Test node ids: a test of a file.
FileNames == <<"a.py", "b.py", "c.py", "d.py">>
NodeIds == { <<FileNames[k], "test">> : k \in 1..NumNodeIds }

\* The outcomes of a test record.
Outcomes == {"passed", "skipped", "failed", "error"}

PassedOnly == {"passed"}

PASS_OUTCOMES == {"passed", "skipped"}

ErrorOutcomeOnly == {"error"}

FAIL_OUTCOMES == {"failed", "error"}

\* The root of a report: none, the default one, another one.
NoRoot == <<>>
Roots == { NoRoot, <<"/workspace">>, <<"/repo">> }

\* os.path.join(root_dir, test)
PathJoin(root, test) == root \o test

\* One record of a report's "tests".  `crash` tells where the record has a
\* crash entry: at the top, in one stage, or nowhere.  The report writer
\* gives outcome error, not failed, to a test that fails in setup or
\* teardown (as compose_a_report_for_missing_test does), so a failed
\* record has its crash in the call stage or has none.
PreRecords == [nodeid : NodeIds, outcome : Outcomes, crash : {"none"}]
PostRecords ==
    { r \in [nodeid : NodeIds, outcome : Outcomes, crash : {"none", "call"}] :
        r.crash = "call" => r.outcome = "failed" }

SeqsUpTo(S, n) == UNION { [1..k -> S] : k \in 0..n }

PreReports == [tests : SeqsUpTo(PreRecords, MaxRecords), root : {NoRoot}]
PostReports == [tests : SeqsUpTo(PostRecords, MaxRecords), root : Roots]

\* What evaluate recorded for an instance that raised.
RoundError == ErrorResult(<<"DockerError">>)

NodesWithOutcome(rep, outcomes) ==
    { rep.tests[k].nodeid : k \in { k \in 1..Len(rep.tests) : rep.tests[k].outcome \in outcomes } }

\* utils.py, extract_crash_details_from_report: a map from the node ids of
\* the error and failed records to their crash text, later records of a
\* node id replacing earlier ones; KeyError on a failed record whose crash
\* is in its setup stage only (line 78 reads test['crash']).
CrashText(r) ==
    IF r.outcome = "error" THEN "longrepr"
    ELSE IF r.crash = "top" THEN "crash"
    ELSE IF r.crash \in {"call", "call+teardown"} THEN "call crash"
    ELSE IF r.crash = "teardown" THEN "teardown crash"
    ELSE ""

RECURSIVE CrashDetailsFrom(_, _, _)
CrashDetailsFrom(recs, k, output) ==
    IF k > Len(recs) THEN [kind |-> "return", val |-> output]
    ELSE LET r == recs[k] IN
         IF r.outcome # "error" /\ r.outcome # "failed"
         THEN CrashDetailsFrom(recs, k + 1, output)
         ELSE IF r.outcome = "failed" /\ r.crash \in {"setup", "setup+call"}
         THEN [kind |-> "raise", val |-> <<"KeyError">>]
         ELSE CrashDetailsFrom(recs, k + 1,
                  [n \in DOMAIN output \cup {r.nodeid} |->
                      IF n = r.nodeid THEN CrashText(r) ELSE output[n]])

extract_crash_details_from_report(rep) == CrashDetailsFrom(rep.tests, 1, <<>>)

Restrict(f, S) == [n \in S |-> f[n]]

RebaseNever(entry, root) == entry

\* Lines 137-144: with a root other than /workspace, every id is joined
\* to the root.
Rebase(entry, root) ==
    IF root # NoRoot /\ root # <<"/workspace">>
    THEN [ p2p |-> { PathJoin(root, n) : n \in entry.p2p },
           f2p |-> { PathJoin(root, n) : n \in entry.f2p },
           f2f |-> { PathJoin(root, n) : n \in entry.f2f },
           p2f |-> { PathJoin(root, n) : n \in entry.p2f },
           f2f_test_details |->
               [ m \in { PathJoin(root, n) : n \in DOMAIN entry.f2f_test_details } |->
                   entry.f2f_test_details[SubSeq(m, Len(root) + 1, Len(m))] ],
           p2f_test_details |->
               [ m \in { PathJoin(root, n) : n \in DOMAIN entry.p2f_test_details } |->
                   entry.p2f_test_details[SubSeq(m, Len(root) + 1, Len(m))] ] ]
    ELSE entry

\* Lines 93-134: the entry of an instance whose post-round result is a
\* report, given the crash details in force (cd).
ResultEntry(pre, post, cd) ==
    LET golden_pass == NodesWithOutcome(post, PASS_OUTCOMES)
        golden_fail == DOMAIN cd
    IN  IF "error" \in DOMAIN pre
        THEN [ p2p |-> {}, f2p |-> golden_pass, f2f |-> golden_fail, p2f |-> {},
               f2f_test_details |-> cd, p2f_test_details |-> <<>> ]
        ELSE LET pre_golden_pass == NodesWithOutcome(pre, PASS_OUTCOMES)
                 pre_golden_fail == NodesWithOutcome(pre, FAIL_OUTCOMES)
             IN [ p2p |-> pre_golden_pass \cap golden_pass,
                  f2p |-> pre_golden_fail \cap golden_pass,
                  f2f |-> pre_golden_fail \cap golden_fail,
                  p2f |-> pre_golden_pass \cap golden_fail,
                  f2f_test_details |-> Restrict(cd, pre_golden_fail \cap golden_fail),
                  p2f_test_details |-> Restrict(cd, pre_golden_pass \cap golden_fail) ]

IsAbsent(res) == "absent" \in DOMAIN res

ErrorWithTraceback(golden) == golden

\* Line 89: {'error': golden_round_result['error']}
ErrorOnly(golden) == [error |-> golden.error]

Bound(cd) == [bound |-> TRUE, val |-> cd]

\* The results of one instance id in the two rounds: in one of the maps at
\* least, an error or a report in each.
RoundResults ==
    { pp \in ({NoResult, RoundError} \cup PreReports)
               \X ({NoResult, RoundError} \cup PostReports) :
        ~(IsAbsent(pp[1]) /\ IsAbsent(pp[2])) }

\* Lines 82-145: the loop's body for one instance id.  An id that is not
\* in golden_round_results is not visited; one that is not in
\* pre_golden_round_results is skipped (line 84); UnboundLocalError at
\* line 115 when the extraction raised and no earlier visit bound
\* crash_details.  The visits of two ids share nothing but crash_details,
\* which each visit that reads it has bound anew unless the extraction
\* raised.
ClassifyInstance ==
    /\ cpc = "visit"
    /\ IF IsAbsent(golden_round_result) \/ IsAbsent(pre_golden_round_result)
       THEN /\ result_entry' = NoResult
            /\ cpc' = "done"
            /\ UNCHANGED crash_details
       ELSE IF "error" \in DOMAIN golden_round_result
       THEN /\ result_entry' = ErrorOnly(golden_round_result)
            /\ cpc' = "done"
            /\ UNCHANGED crash_details
       ELSE LET x == extract_crash_details_from_report(golden_round_result)
                cd == IF x.kind = "return" THEN Bound(x.val) ELSE crash_details
            IN  /\ crash_details' = cd
                /\ IF cd.bound
                   THEN /\ result_entry' =
                               Rebase(ResultEntry(pre_golden_round_result,
                                                  golden_round_result, cd.val),
                                      golden_round_result.root)
                        /\ cpc' = "done"
                   ELSE /\ result_entry' = NoResult
                        /\ cpc' = "raised"
    /\ UNCHANGED <<pre_golden_round_result, golden_round_result, todo>>
    /\ UNCHANGED <<buildVars, runVars, evalVars, scriptVars, gatherVars, hashVars, entryVars, reportVars>>

\* Lines 79-85: gather_results is called and comes to an instance id.
ClassifyStart ==
    /\ cpc = "visit"
    /\ \E pp \in RoundResults :
           /\ pre_golden_round_result = pp[1]
           /\ golden_round_result = pp[2]
    /\ crash_details = Unbound
    /\ result_entry = NoResult
    /\ todo = <<>>

\* The harness itself is idle, with the registry not in use.
HarnessIdle ==
    /\ BuildInit
    /\ ~PullEnabled /\ ~PushEnabled
    /\ RunIdle
    /\ EvalIdle

ClassifyInit ==
    HarnessIdle /\ ScriptIdle /\ ClassifyStart /\ GatherIdle /\ HashIdle /\ EntryIdle /\ ReportIdle

ClassifyNext == ClassifyInstance

SpecClassify == ClassifyInit /\ [][ClassifyNext]_vars

\* --------------------------- produce.py: gather_results over two instance ids
\* Records of a report whose failed tests have a crash entry in any stage:
\* in none, in one, or in two of setup, call and teardown.
StagedRecords ==
    { r \in [nodeid : NodeIds, outcome : Outcomes,
             crash : {"none", "setup", "call", "teardown", "setup+call",
                      "call+teardown"}] :
        r.crash # "none" => r.outcome = "failed" }

\* The result pair of the instance id visited first: a pre-round error and
\* a post-round report of one record at most.
FirstResults ==
    { <<RoundError, post>> :
        post \in [tests : SeqsUpTo(StagedRecords, 1), root : {NoRoot}] }

\* The result pair of an instance id visited after it.
LaterResults ==
    ({RoundError} \cup [tests : SeqsUpTo(PreRecords, 1), root : {NoRoot}])
        \X [tests : SeqsUpTo(StagedRecords, MaxRecords), root : {NoRoot}]

\* Lines 82-85, 145: the entry is stored and the loop comes to the next
\* instance id; crash_details keeps what the last visit bound.
NextInstance ==
    /\ cpc = "done"
    /\ todo # <<>>
    /\ pre_golden_round_result' = Head(todo)[1]
    /\ golden_round_result' = Head(todo)[2]
    /\ todo' = Tail(todo)
    /\ result_entry' = NoResult
    /\ cpc' = "visit"
    /\ UNCHANGED crash_details
    /\ UNCHANGED <<buildVars, runVars, evalVars, scriptVars, gatherVars, hashVars, entryVars, reportVars>>

\* gather_results is called with the results of one or of two instance ids.
StagedStart ==
    /\ cpc = "visit"
    /\ \E pp \in FirstResults :
           /\ pre_golden_round_result = pp[1]
           /\ golden_round_result = pp[2]
    /\ crash_details = Unbound
    /\ result_entry = NoResult
    /\ todo \in {<<>>} \cup { <<pp>> : pp \in LaterResults }

StagedInit ==
    HarnessIdle /\ ScriptIdle /\ StagedStart /\ GatherIdle /\ HashIdle /\ EntryIdle /\ ReportIdle

StagedNext ==
    \/ ClassifyInstance
    \/ NextInstance

SpecStaged == StagedInit /\ [][StagedNext]_vars

\* ------------------- run_instance.py: EvaluationPipelineInterface.gather_results
\* The records of results['tests'] as the report file has them.
ReportRecords == [nodeid : NodeIds, outcome : Outcomes, longrepr : {""}]

\* The collectors of a report: one for a file, passed or failed with the
\* text of its failure.
CollectorIds == { <<FileNames[k]>> : k \in 1..NumNodeIds }
Collectors ==
    { c \in [nodeid : CollectorIds, outcome : {"passed", "failed"},
             longrepr : {"", "ModuleNotFoundError", "ImportError", "SyntaxError"}] :
        (c.longrepr = "") <=> (c.outcome = "passed") }

\* The parsed report, with or without the 'collectors' key.
PytestReports ==
    [tests : SeqsUpTo(ReportRecords, MaxRecords)]
    \cup [tests : SeqsUpTo(ReportRecords, MaxRecords),
          collectors : SeqsUpTo(Collectors, MaxCollectors)]

\* The requested test ids.
RequestedTests == SeqsUpTo(NodeIds, MaxTests)

\* Lines 93-98: nodeid -> passed, the last record of a node id deciding.
ShortResults(recs, skipped_ok) ==
    [ n \in { recs[k].nodeid : k \in 1..Len(recs) } |->
        LET last == CHOOSE k \in 1..Len(recs) :
                        /\ recs[k].nodeid = n
                        /\ \A j \in (k+1)..Len(recs) : recs[j].nodeid # n
        IN  IF skipped_ok THEN recs[last].outcome \in {"passed", "skipped"}
            ELSE recs[last].outcome = "passed" ]

\* Line 110: 'ModuleNotFoundError' in longrepr or "ImportError" in longrepr
IsImportError(longrepr) == longrepr \in {"ModuleNotFoundError", "ImportError"}

\* Lines 103-112: the loop over the collectors; it raises at the first
\* failed collector with an import error and notes the other failed ones.
RECURSIVE ValidateCollectors(_, _, _)
ValidateCollectors(cols, k, problematic) ==
    IF k > Len(cols) THEN Returned(problematic)
    ELSE LET c == cols[k] IN
         IF c.outcome # "failed" THEN ValidateCollectors(cols, k + 1, problematic)
         ELSE IF IsImportError(c.longrepr)
         THEN Raised("Exception: Failed to collect tests due to an ImportError")
         ELSE ValidateCollectors(cols, k + 1,
                  [n \in DOMAIN problematic \cup {c.nodeid} |->
                      IF n = c.nodeid THEN c.longrepr ELSE problematic[n]])

\* Line 124: pcollectors in test
Contains(test, c) ==
    \E i \in 1..(Len(test) - Len(c) + 1) : SubSeq(test, i, i + Len(c) - 1) = c

\* compose_a_report_for_missing_test, lines 134-161.
compose_a_report_for_missing_test(test, longrepr) ==
    [nodeid |-> test, outcome |-> "error",
     longrepr |-> IF longrepr = "" THEN "not found in the working directory" ELSE longrepr]

\* Lines 122-126: the text of the first noted collector whose id is in the test id.
LongreprFor(test, problematic) ==
    IF \E c \in DOMAIN problematic : Contains(test, c)
    THEN problematic[CHOOSE c \in DOMAIN problematic : Contains(test, c)]
    ELSE ""

MarkFalse(short_results, missing) ==
    [ n \in DOMAIN short_results \cup { missing[k] : k \in 1..Len(missing) } |->
        IF \E k \in 1..Len(missing) : missing[k] = n THEN FALSE ELSE short_results[n] ]

\* Line 116: if tests and len(results['tests']) < len(tests)
Reconcile(recs, requested) == requested # <<>> /\ Len(recs) < Len(requested)

\* Line 102: if tests and 'collectors' in results
Validate(rep, requested) == requested # <<>> /\ "collectors" \in DOMAIN rep

\* pytest_report.json without a byte in it, as run_instance.py line 241
\* writes it before the container starts.
EmptyFile == [empty |-> TRUE]

\* results/test_err.txt, as the lines of its text.  The last line of
\* EVAL_SCRIPT (docker/consts.py line 114) redirects the test command's
\* error output to it, so the file is there once the container has exited.
ErrFiles ==
    { <<>>,
      <<"ERROR: usage: pytest [options]">>,
      <<"Traceback (most recent call last):", "ModuleNotFoundError">> }

ReturnForEmptyReport(err) == Returned([short_results |-> <<>>, tests |-> <<>>])

\* Lines 79-88: the report file is empty.  An empty test_err.txt gives the
\* error about the report machinery, another one the error with the text of
\* the file.
RaiseForEmptyReport(err) ==
    IF err = <<>>
    THEN Raised("Exception: Error while generating the test reports. Are you running pytest using --json-report?")
    ELSE [kind |-> "raise",
          val |-> <<"Exception: Error while generating the test reports.">> \o err]

\* Lines 77-130.  What is returned is short_results or results; both are
\* kept here.
gather_results(rep, err, requested, skipped_ok, is_short, ignore) ==
    IF "empty" \in DOMAIN rep THEN RaiseForEmptyReport(err) ELSE
    LET short_results == ShortResults(rep.tests, skipped_ok)
        validated == IF Validate(rep, requested)
                     THEN ValidateCollectors(rep.collectors, 1, <<>>)
                     ELSE Returned(<<>>)
    IN  IF validated.kind = "raise" THEN validated
        ELSE IF Validate(rep, requested) /\ DOMAIN validated.val # {} /\ ~ignore
        THEN Raised("Exception: Failed to collect tests")
        ELSE IF Reconcile(rep.tests, requested)
        THEN LET tests_missing == SelectSeq(requested, LAMBDA t : t \notin DOMAIN short_results)
             IN  Returned([ short_results |-> MarkFalse(short_results, tests_missing),
                            tests |-> IF is_short THEN rep.tests
                                      ELSE rep.tests \o
                                           [ k \in 1..Len(tests_missing) |->
                                               compose_a_report_for_missing_test(
                                                   tests_missing[k],
                                                   LongreprFor(tests_missing[k], validated.val)) ] ])
        ELSE Returned([short_results |-> short_results, tests |-> rep.tests])

\* run_instance.py line 301: gather_results is applied to the report.
Gather ==
    /\ gpc = "ready"
    /\ gathered' = gather_results(pytest_report, test_err, tests, TRUE, short,
                                   ignore_collector_errors)
    /\ gpc' = "done"
    /\ UNCHANGED <<pytest_report, tests, short, ignore_collector_errors, test_err>>
    /\ UNCHANGED <<buildVars, runVars, evalVars, scriptVars, classifyVars, hashVars, entryVars, reportVars>>

\* test_err.txt is read only when the report file is empty: it is drawn for
\* the empty report, and is there and empty beside the other reports.
GatherStart ==
    /\ gpc = "ready"
    /\ \/ /\ pytest_report \in PytestReports
          /\ test_err = <<>>
       \/ /\ pytest_report = EmptyFile
          /\ test_err \in ErrFiles
    /\ tests \in RequestedTests
    /\ short \in BOOLEAN
    /\ ignore_collector_errors \in BOOLEAN
    /\ gathered = NoRet

GatherInit ==
    HarnessIdle /\ ScriptIdle /\ ClassifyIdle /\ GatherStart /\ HashIdle /\ EntryIdle /\ ReportIdle

GatherNext == Gather

SpecGather == GatherInit /\ [][GatherNext]_vars

\* ------------------------------- image_builder.py: get_image_name on two specs
\* The values a field of a spec dict can hold: a str, a list of strs, a set
\* of strs, a dict from str to str, a list of [key, value] lists.
Atoms == {"a", "b"}
PyAtoms == { PyStr(x) : x \in Atoms }
AtomLists == { PyList(l) : l \in SeqsUpTo(PyAtoms, MaxListLen) }
AtomSets == { PySet(S) : S \in SUBSET PyAtoms }
AtomDicts == { PyDict(f) : f \in UNION { [D -> PyAtoms] : D \in SUBSET Atoms } }
PairLists ==
    { PyList(l) : l \in SeqsUpTo({ PyList(<<k, v>>) : k, v \in PyAtoms }, MaxListLen - 1) }
FieldValues == PyAtoms \cup AtomLists \cup AtomSets \cup AtomDicts \cup PairLists

\* A key that the dict does not hold.
Absent == <<"absent">>

\* The dict with the keys of f whose value is not Absent.
DictOf(f) == [k \in { k \in DOMAIN f : f[k] # Absent } |-> f[k]]

\* The spec dicts: python and test_cmd are always there (run_instance reads
\* both with spec_dict[...]), the other keys may be missing.
SpecDicts ==
    { DictOf([python |-> PyStr("3.9"), packages |-> pk, install |-> ins,
              test_cmd |-> tc, eval_commands |-> ev]) :
        pk \in FieldValues \cup {Absent},
        ins \in {Absent, PyStr("pip")},
        tc \in {PyStr("pytest"), PyStr("tox")},
        ev \in {Absent, PyList(<<PyStr("a")>>)} }

\* get_image_name is applied to the two instances' repository and spec.
HashSpecs ==
    /\ hpc = "ready"
    /\ name_a' = GetImageName(repo_name, spec_a)
    /\ name_b' = GetImageName(repo_other, spec_b)
    /\ hpc' = "done"
    /\ UNCHANGED <<repo_name, repo_other, spec_a, spec_b>>
    /\ UNCHANGED <<buildVars, runVars, evalVars, scriptVars, classifyVars, gatherVars, entryVars, reportVars>>

\* Two instances of one repository.
HashStart ==
    /\ hpc = "ready"
    /\ repo_name \in Repos
    /\ repo_other = repo_name
    /\ spec_a \in SpecDicts
    /\ spec_b \in SpecDicts
    /\ name_a = NoName
    /\ name_b = NoName

HashInit ==
    HarnessIdle /\ ScriptIdle /\ ClassifyIdle /\ GatherIdle /\ HashStart /\ EntryIdle /\ ReportIdle

HashNext == HashSpecs

SpecHash == HashInit /\ [][HashNext]_vars

\* The repository names of a dataset: owner/name, with letters of either
\* case and '-' in the owner or in the name.
RepoNames ==
    Repos \cup { <<"o", "-", "a", "/", "b">>, <<"o", "/", "a", "-", "b">>,
                 <<"o", "/", "b">> }

\* Two instances with one spec dict, of any two repositories.
RepoStart ==
    /\ hpc = "ready"
    /\ repo_name \in RepoNames
    /\ repo_other \in RepoNames
    /\ spec_a \in SpecDicts
    /\ spec_b = spec_a
    /\ name_a = NoName
    /\ name_b = NoName

RepoInit ==
    HarnessIdle /\ ScriptIdle /\ ClassifyIdle /\ GatherIdle /\ RepoStart /\ EntryIdle /\ ReportIdle

SpecRepo == RepoInit /\ [][HashNext]_vars


\* ------------------------------------ docker/consts.py: EVAL_SCRIPT, PATCH_CODE_PY
\* run_instance.py lines 231-234: patch i is mounted as /patches/patch_{i}.patch.
\* The file name after "patch_", as code points: the decimal digits of i
\* ("0" is 48) and the dot of ".patch" (46).
PatchFileName(i) ==
    (IF i >= 10 THEN <<48 + (i \div 10)>> ELSE <<>>) \o <<48 + (i % 10), 46>>

\* a < b for str: by the first code point that differs.
RECURSIVE LexLess(_, _)
LexLess(a, b) ==
    IF a = <<>> THEN b # <<>>
    ELSE IF b = <<>> THEN FALSE
    ELSE IF Head(a) # Head(b) THEN Head(a) < Head(b)
    ELSE LexLess(Tail(a), Tail(b))

\* PATCH_CODE_PY: patch_files = sorted(patch_dir.glob("*.patch")), as the
\* indexes of the files.
RECURSIVE SortedPatches(_)
SortedPatches(S) ==
    IF S = {} THEN <<>>
    ELSE LET m == CHOOSE x \in S :
                      \A y \in S \ {x} : LexLess(PatchFileName(x), PatchFileName(y))
         IN  <<m>> \o SortedPatches(S \ {m})

patch_files == SortedPatches(0..(num_patches - 1))

ExitStatuses == {0, 1}

\* EVAL_SCRIPT runs under bash with set -x only: a command that fails does
\* not end the script.
\* time git checkout $GIT_COMMIT
Checkout ==
    /\ epc = "checkout"
    /\ epc' = "patch"
    /\ last_status' \in ExitStatuses
    /\ UNCHANGED <<num_patches, applied, patch_failed, ran, exit_code, rollback_tried, reverted>>
    /\ UNCHANGED <<buildVars, runVars, evalVars, scriptVars, classifyVars, gatherVars, hashVars, reportVars>>

Reverse(seq) == [i \in 1..Len(seq) |-> seq[Len(seq) + 1 - i]]

\* _rollback_patches, lines 166-167: reversed(patch_files[:idx+1]), idx the
\* place of the patch that failed, counted from 0.
RollbackOrder(files, idx) == Reverse(SubSeq(files, 1, idx + 1))

\* python /app/patch_codes.py, one turn of its loop: the next patch file
\* applies, or it does not; then _rollback_patches goes through its list and
\* sys.exit(1) ends patch_codes.py.  For each patch of the list, echo is run
\* with the patch's path and "> tmp.patch" as arguments (it writes no file)
\* and patch -R is given tmp.patch: it fails, or reverses whatever the
\* repository has under that name; the patch itself is not reverse-applied.
\* The script goes on with its next line.
ApplyPatch ==
    /\ epc = "patch"
    /\ Len(applied) < Len(patch_files)
    /\ \/ /\ applied' = Append(applied, patch_files[Len(applied) + 1])
          /\ UNCHANGED <<epc, patch_failed, last_status, rollback_tried, reverted>>
       \/ /\ patch_failed' = TRUE
          /\ rollback_tried' = RollbackOrder(patch_files, Len(applied))
          /\ reverted' = <<>>
          /\ last_status' = 1
          /\ epc' = "install"
          /\ UNCHANGED applied
    /\ UNCHANGED <<num_patches, ran, exit_code>>
    /\ UNCHANGED <<buildVars, runVars, evalVars, scriptVars, classifyVars, gatherVars, hashVars, reportVars>>

\* patch_codes.py ends after the last patch file (or without any).
PatchCodesEnds ==
    /\ epc = "patch"
    /\ Len(applied) = Len(patch_files)
    /\ epc' = "install"
    /\ last_status' = 0
    /\ UNCHANGED <<num_patches, applied, patch_failed, ran, exit_code, rollback_tried, reverted>>
    /\ UNCHANGED <<buildVars, runVars, evalVars, scriptVars, classifyVars, gatherVars, hashVars, reportVars>>

\* A command of the script is run; the next line is reached whatever its
\* status is.
RunCommand(at, cmd, next) ==
    /\ epc = at
    /\ ran' = Append(ran, cmd)
    /\ last_status' \in ExitStatuses
    /\ epc' = next
    /\ UNCHANGED <<num_patches, applied, patch_failed, exit_code, rollback_tried, reverted>>
    /\ UNCHANGED <<buildVars, runVars, evalVars, scriptVars, classifyVars, gatherVars, hashVars, reportVars>>

\* time {install} > /results/install_log.txt
Install == RunCommand("install", "install", "eval")

\* {eval_commands}
EvalCommands == RunCommand("eval", "eval_commands", "test")

\* time {test_cmd} > /results/test_log.txt 2> /results/test_err.txt
TestCmd == RunCommand("test", "test_cmd", "end")

\* The end of the script: its status is the status of its last command.
ScriptEnds ==
    /\ epc = "end"
    /\ epc' = "exited"
    /\ exit_code' = last_status
    /\ UNCHANGED <<num_patches, applied, patch_failed, ran, last_status, rollback_tried, reverted>>
    /\ UNCHANGED <<buildVars, runVars, evalVars, scriptVars, classifyVars, gatherVars, hashVars, reportVars>>

EntryStart ==
    /\ epc = "checkout"
    /\ num_patches \in 0..MaxPatches
    /\ applied = <<>>
    /\ patch_failed = FALSE
    /\ ran = <<>>
    /\ last_status = NoStatus
    /\ exit_code = NoStatus
    /\ rollback_tried = <<>>
    /\ reverted = <<>>

EntryInit ==
    HarnessIdle /\ ScriptIdle /\ ClassifyIdle /\ GatherIdle /\ HashIdle /\ EntryStart /\ ReportIdle

EntryNext ==
    \/ Checkout
    \/ ApplyPatch
    \/ PatchCodesEnds
    \/ Install
    \/ EvalCommands
    \/ TestCmd
    \/ ScriptEnds

SpecEntry == EntryInit /\ [][EntryNext]_vars

\* ------------------------------------------- evaluate.py: run_evaluate's report
\* What evaluate records for an instance (lines 108-111, 120): the short
\* test map with the time taken, or an error with its traceback.
TestMaps == UNION { [D -> BOOLEAN] : D \in SUBSET NodeIds }
ShortRecords == [tests : TestMaps, time : 1..MaxTime]
ErrorRecords == { ErrorResult(<<"DockerError">>) }

\* The maps evaluate can return: some instances, each with a record.
ReturnedResults ==
    UNION { [D -> ShortRecords \cup ErrorRecords] : D \in SUBSET Instances }

\* The orders in which a dict's items can come: the order of insertion.
OrdersOf(D) ==
    { o \in [1..Cardinality(D) -> D] : \A i, j \in DOMAIN o : i # j => o[i] # o[j] }

\* Lines 213-222.
EmptyReport ==
    [resolved |-> 0, unresolved |-> 0, errors |-> 0,
     resolved_instances |-> <<>>, unresolved_instances |-> <<>>,
     errors_instances |-> <<>>]

\* dict[iid] = value
SetItem(d, iid, value) ==
    [j \in DOMAIN d \cup {iid} |-> IF j = iid THEN value ELSE d[j]]

SomeTrue(test_map) == \E n \in DOMAIN test_map : test_map[n]

\* Line 228: all([code for code in result['tests'].values()])
AllTrue(test_map) == \A n \in DOMAIN test_map : test_map[n]

\* Lines 224-233: the loop over results.items(), from the k-th item on.
RECURSIVE ComposeFrom(_, _, _, _)
ComposeFrom(res, order, k, out) ==
    IF k > Len(order) THEN out
    ELSE LET iid == order[k]
             result == res[iid]
         IN  ComposeFrom(res, order, k + 1,
                 IF "error" \in DOMAIN result
                 THEN [out EXCEPT !.errors = @ + 1,
                                  !.errors_instances = Append(@, iid)]
                 ELSE IF AllTrue(result.tests)
                 THEN [out EXCEPT !.resolved = @ + 1,
                                  !.resolved_instances = SetItem(@, iid, result.time)]
                 ELSE [out EXCEPT !.unresolved = @ + 1,
                                  !.unresolved_instances = SetItem(@, iid, result.time)])

\* Lines 213-233: json_output, with 'total': len(results).
ComposeReport ==
    /\ kpc = "ready"
    /\ json_output' =
           LET r == ComposeFrom(returned_results, items_order, 1, EmptyReport)
           IN  [total |-> Cardinality(DOMAIN returned_results),
                resolved |-> r.resolved, unresolved |-> r.unresolved,
                errors |-> r.errors,
                resolved_instances |-> r.resolved_instances,
                unresolved_instances |-> r.unresolved_instances,
                errors_instances |-> r.errors_instances]
    /\ kpc' = "done"
    /\ UNCHANGED <<returned_results, items_order>>
    /\ UNCHANGED <<buildVars, runVars, evalVars, scriptVars, classifyVars, gatherVars, hashVars, entryVars>>

ReportStart ==
    /\ kpc = "ready"
    /\ returned_results \in ReturnedResults
    /\ items_order \in OrdersOf(DOMAIN returned_results)
    /\ json_output = NoResult

ReportInit ==
    HarnessIdle /\ ScriptIdle /\ ClassifyIdle /\ GatherIdle /\ HashIdle /\ EntryIdle /\ ReportStart

ReportNext == ComposeReport

SpecReport == ReportInit /\ [][ReportNext]_vars

\* ------------------- run_instance.py: the entrypoint's test command and its result
\* A command is its program and the options after it, in order.  The test
\* commands of the spec dicts: pytest alone, with -x last, with -x before
\* another option, or with the report options already in it.
JsonReportFlags ==
    <<"--tb=short", "--json-report", "--json-report-file=/pass_report.json",
      "-W ignore::DeprecationWarning">>

SpecTestCmds ==
    { [echo |-> FALSE, base |-> "pytest", flags |-> f, timeout |-> <<>>, targets |-> <<>>] :
        f \in { <<>>, <<"-x">>, <<"-x", "-q">>,
                <<"--json-report", "--json-report-file=/pass_report.json">> } }

\* 'json-report' in test_cmd
HasJsonReport(flags) ==
    \E k \in 1..Len(flags) :
        flags[k] \in {"--json-report", "--json-report-file=/pass_report.json"}

\* '-x ' in test_cmd: a -x with something after it.
HasExitFirstShort(flags) == \E k \in 1..(Len(flags) - 1) : flags[k] = "-x"

\* '--exitfirst' in test_cmd
HasExitFirst(flags) == \E k \in 1..Len(flags) : flags[k] = "--exitfirst"

DummyTest == <<"my_dummy_test_that_has_a_very_unique_name.py">>

MinOf(a, b) == IF a < b THEN a ELSE b

\* run_instance, line 253: min(int(timeout / 2), UNITEST_TIMEOUT_MAX)
PerTestTimeout(timeout, max) == MinOf(timeout \div 2, max)

\* format_eval_script, lines 58-64, as far as the test command goes.
format_eval_script(requested, cmd, timeout, ff) ==
    IF requested = <<>>
    THEN [cmd EXCEPT !.echo = TRUE, !.targets = <<DummyTest>>]
    ELSE LET f1 == IF ff /\ ~HasExitFirstShort(cmd.flags) /\ ~HasExitFirst(cmd.flags)
                   THEN Append(cmd.flags, "--exitfirst") ELSE cmd.flags
             f2 == IF HasJsonReport(f1) THEN f1 ELSE f1 \o JsonReportFlags
         IN  [cmd EXCEPT !.flags = f2, !.timeout = <<timeout>>, !.targets = requested]

\* Lines 248-258: eval.sh is formatted and written.
FormatEvalScript ==
    /\ fpc = "format"
    /\ test_cmd' = format_eval_script(tests, spec_test_cmd,
                                      PerTestTimeout(container_timeout, unitest_timeout_max),
                                      failfast)
    /\ fpc' = "run"
    /\ UNCHANGED <<container_timeout, unitest_timeout_max, spec_test_cmd, failfast, hung>>
    /\ UNCHANGED <<buildVars, runVars, evalVars, classifyVars, gatherVars, hashVars,
                   entryVars, reportVars>>

\* pytest-timeout ends a test after --timeout seconds; 0, or no option,
\* is no timeout.  The test that hangs starts `before` seconds after the
\* container and the container is given `total` seconds.
CutOff(cmd, before, total) ==
    /\ cmd.timeout # <<>>
    /\ cmd.timeout[1] > 0
    /\ before + cmd.timeout[1] < total

\* The reports pytest writes with --json-report: records of up to MaxRecords
\* tests; a requested test that was cut off has a record, with outcome
\* failed.
ReportsOfRun(requested, cut) ==
    { r \in [tests : SeqsUpTo(ReportRecords, MaxRecords)] :
        cut => \E k \in 1..Len(r.tests) :
                   r.tests[k].nodeid = requested[1] /\ r.tests[k].outcome = "failed" }

\* Lines 280-301: the container runs eval.sh.  It exits, with the report
\* written if the test command has the report options and the error output
\* of the test command in test_err.txt; or a test hangs and is not cut off,
\* and wait_for raises TimeoutError after the container's timeout.
RunEntrypoint ==
    /\ fpc = "run"
    /\ \E hangs \in BOOLEAN, before \in 0..MaxSetupTime :
           /\ hangs => tests # <<>>
           /\ hung' = hangs
           /\ IF hangs /\ ~CutOff(test_cmd, before, container_timeout)
              THEN /\ gathered' = Raised("TimeoutError")
                   /\ gpc' = "done"
                   /\ fpc' = "timeout"
                   /\ UNCHANGED <<pytest_report, test_err>>
              ELSE /\ IF HasJsonReport(test_cmd.flags) /\ ~test_cmd.echo
                      THEN /\ pytest_report' \in ReportsOfRun(tests, hangs)
                           /\ test_err' = <<>>
                      ELSE IF HasJsonReport(test_cmd.flags)
                      THEN /\ pytest_report' \in {EmptyFile, [tests |-> <<>>]}
                           /\ test_err' \in ErrFiles \ {<<>>}
                      ELSE /\ pytest_report' = EmptyFile
                           /\ test_err' \in ErrFiles \ {<<>>}
                   /\ gpc' = "ready"
                   /\ fpc' = "exited"
                   /\ UNCHANGED gathered
    /\ UNCHANGED <<tests, short, ignore_collector_errors>>
    /\ UNCHANGED <<container_timeout, unitest_timeout_max, spec_test_cmd, failfast, test_cmd>>
    /\ UNCHANGED <<buildVars, runVars, evalVars, classifyVars, hashVars, entryVars, reportVars>>

\* evaluate.py, lines 105-120: the worker records the short result of the
\* instance, or its error.
RecordResult ==
    /\ fpc \in {"exited", "timeout"}
    /\ gpc = "done"
    /\ returned_results' =
           [i \in {1} |-> IF gathered.kind = "raise" THEN ErrorResult(gathered.val)
                          ELSE [tests |-> gathered.val.short_results, time |-> 1]]
    /\ items_order' = <<1>>
    /\ kpc' = "ready"
    /\ fpc' = "recorded"
    /\ UNCHANGED json_output
    /\ UNCHANGED <<container_timeout, unitest_timeout_max, spec_test_cmd, failfast,
                   test_cmd, hung>>
    /\ UNCHANGED <<buildVars, runVars, evalVars, classifyVars, gatherVars, hashVars, entryVars>>

\* run_evaluate calls evaluate (lines 198-206: short, collector errors not
\* ignored), which comes to run_instance for an instance.
ScriptStart ==
    /\ fpc = "format"
    /\ container_timeout \in 1..MaxContainerTimeout
    /\ unitest_timeout_max \in 1..MaxUnitestTimeout
    /\ spec_test_cmd \in SpecTestCmds
    /\ failfast \in BOOLEAN
    /\ test_cmd = NoCmd
    /\ hung = FALSE
    /\ gpc = "none"
    /\ pytest_report = NoResult
    /\ tests \in RequestedTests
    /\ short = TRUE
    /\ ignore_collector_errors = FALSE
    /\ test_err = <<>>
    /\ gathered = NoRet

ScriptInit ==
    HarnessIdle /\ ScriptStart /\ ClassifyIdle /\ HashIdle /\ EntryIdle /\ ReportIdle

ScriptNext ==
    \/ FormatEvalScript
    \/ RunEntrypoint
    \/ Gather
    \/ RecordResult
    \/ ComposeReport

SpecScript == ScriptInit /\ [][ScriptNext]_vars

\* =====================================================================
\* Claims about build_docker_image_from_specs, checked under Spec.
\* =====================================================================
InCall(t) == bpc[t] # "idle"
Done(t) == bpc[t] = "done"
Building(n) == {t \in Tasks : bpc[t] = "streaming" /\ NameOf(t) = n}

\* C1: for every image name, at most one build is in flight at any time,
\* however many tasks have called for that image.
C1_AtMostOneBuildInFlight ==
    \A n \in ImageNames : Cardinality(Building(n)) <= 1

\* A build is in flight while another task waits for the same image's lock.
C1_Witness ==
    \E t1, t2 \in Tasks :
        /\ t1 # t2
        /\ bpc[t1] = "streaming"
        /\ bpc[t2] = "lock"
        /\ NameOf(t1) = NameOf(t2)

\* The calls made so far are exactly the current calls of the tasks in S.
OnlyCalls(S) == S = {t \in Tasks : InCall(t)} /\ calls = Cardinality(S)

C3_FailedIsSticky ==
    /\ [][failed_images \subseteq failed_images']_vars
    /\ [](\A t \in Tasks :
            (bsteps[t].acquired /\ bsteps[t].failedAtLock) =>
                /\ Done(t)
                /\ bret[t] = Raised("FailedBefore")
                /\ ~bsteps[t].listed
                /\ ~bsteps[t].pullCalled
                /\ ~bsteps[t].built
                /\ bsteps[t].pushed = "no")

\* A forced rebuild of a failed name has raised.
C3_Witness ==
    \E t \in Tasks :
        /\ Done(t)
        /\ bargs[t].force_rebuild
        /\ bsteps[t].failedAtLock
        /\ NameOf(t) \in failed_images

\* C4: a build that ended without an image (error entry, DockerError while
\* streaming, timeout) leaves its name in the failed set.
C4_FailedBuildMarksFailed ==
    \A t \in Tasks :
        ( /\ Done(t)
          /\ bsteps[t].built
          /\ bret[t] \in {Raised("BuildFailed"), Raised("DockerError"),
                          BuildTimeoutRaised} )
        => NameOf(t) \in failed_images

\* C5: whatever path a call returns by, it returns the image name that
\* get_image_name gave at its entry.
C5_ReturnsImageName ==
    \A t \in Tasks :
        (Done(t) /\ bret[t].kind = "return") => bret[t].val = StrValue(NameOf(t))

\* C6: an unforced call that finds a local image returns the name without
\* reaching the pull or the build; a forced call skips lookup and pull and
\* builds.
C6_CacheHitAndForce ==
    \A t \in Tasks :
        (bsteps[t].acquired /\ ~bsteps[t].failedAtLock) =>
            /\ (~bargs[t].force_rebuild /\ bsteps[t].listed /\ bsteps[t].foundLocal)
                   => /\ Done(t)
                      /\ bret[t] = Returned(StrValue(NameOf(t)))
                      /\ ~bsteps[t].pullCalled
                      /\ ~bsteps[t].built
            /\ bargs[t].force_rebuild
                   => /\ ~bsteps[t].listed
                      /\ ~bsteps[t].pullCalled
                      /\ bsteps[t].built

\* A cache hit while a local image exists, with pull enabled.
C6_Witness ==
    \E t \in Tasks :
        /\ Done(t)
        /\ ~bargs[t].force_rebuild
        /\ bsteps[t].foundLocal
        /\ PullEnabled

\* C7: with pull enabled, no local image and an image the registry does not
\* hold (the pull fails), the call goes on to build, and what it returns
\* is the image name.
C7_PullFailureFallsBackToBuild ==
    \A t \in Tasks :
        ( /\ Done(t)
          /\ PullEnabled
          /\ bsteps[t].listed
          /\ ~bsteps[t].foundLocal
          /\ NameOf(t) \notin registryImages )
        => /\ bsteps[t].built
           /\ bret[t].kind = "return" => bret[t].val = StrValue(NameOf(t))

\* C8: a failed push after a successful build still returns the image name.
C8_PushFailureStillReturns ==
    \A t \in Tasks :
        (Done(t) /\ bsteps[t].built /\ bsteps[t].pushed = "failed")
            => bret[t] = Returned(StrValue(NameOf(t)))

\* =====================================================================
\* Claims about run_instance and evaluate

\* C9: every container that run_instance creates has a delete issued for
\* it before run_instance returns or raises, on every exit path (normal
\* completion, failure to start, timeout, failure of the kill or of the
\* log fetch, report error, interruption).
C9_CreatedContainerIsDeleted ==
    \A t \in Tasks :
        (rpc[t] = "done" /\ Happened(rinst[t], "create"))
            => Happened(rinst[t], "delete")

\* C10: when the container of an instance does not exit within the
\* timeout, it is killed and then deleted, no report is parsed, and what
\* the scheduler records for the instance is the error of a TimeoutError
\* that carries the timeout of that run.
C10_TimeoutIsKilledDeletedAndRecorded ==
    \A i \in Instances :
        (i \in DOMAIN results /\ Happened(i, "timeout"))
            => /\ Before(i, "kill", "delete")
               /\ Happened(i, "delete")
               /\ ~Happened(i, "parse")
               /\ results[i] = ErrorResult(ContainerTimeout(EffectiveTimeout(i)))

\* The build or the run of instance i raised: run_instance did not come to
\* a parsed report.
Failing(i) == ~Happened(i, "parse") \/ Happened(i, "parse failed")

\* C11: in streaming mode, what evaluate returns has exactly one entry for
\* each instance of the dataset: an error record for each instance whose
\* build or run raised, the normal result for each other one; and an entry,
\* once recorded, is never removed or replaced.
C11_StreamingIsolatesFailures ==
    /\ [] ( (mpc = "returned" /\ ~batch_mode) =>
               /\ DOMAIN results = Instances
               /\ \A i \in Instances :
                      IF Failing(i)
                      THEN DOMAIN results[i] = {"error", "traceback"}
                      ELSE DOMAIN results[i] = {"tests"} )
    /\ [][ ~batch_mode =>
               \A i \in DOMAIN results :
                   i \in DOMAIN results' /\ results'[i] = results[i] ]_vars

\* evaluate has returned in streaming mode, with an error for one instance
\* and a normal result for another.
C11_Witness ==
    /\ mpc = "returned"
    /\ ~batch_mode
    /\ \E i, j \in Instances :
           /\ Failing(i) /\ IsError(results[i])
           /\ ~Failing(j) /\ "tests" \in DOMAIN results[j]

\* C12: in both submission modes, the map evaluate returns contains every
\* instance id of the dataset, each with a result or a captured error.
C12_EveryInstanceIsReported ==
    mpc = "returned" =>
        \A i \in Instances :
            /\ i \in DOMAIN results
            /\ IsError(results[i]) \/ "tests" \in DOMAIN results[i]

\* The instances between the start of their image build and the recording
\* of their result.
InFlight ==
    { i \in Instances : \E w \in Tasks : witem[w] = i /\ wpc[w] \in {"build", "run"} }

\* C13: in every state of evaluate at most max_workers instances are in
\* flight (build or container run), each of them holding one permit of the
\* semaphore.
C13_InFlightAtMostMaxWorkers ==
    /\ Cardinality(InFlight) <= max_workers
    /\ sem >= 0
    /\ Cardinality(InFlight) + sem = max_workers

\* max_workers instances are in flight at once.
C13_Witness ==
    /\ Cardinality(InFlight) = max_workers
    /\ sem = 0

\* Instance i has been put on the queue.
Submitted(i) ==
    \/ \E k \in 1..Len(queue) : queue[k] = i
    \/ \E w \in Tasks : witem[w] = i
    \/ i \in DOMAIN results

\* The batch before the one of instance i (i is not in the first batch).
PreviousBatch(i) == Batch((((i - 1) \div max_workers) - 1) * max_workers + 1)

HasNonError(S) == \E j \in S : "error" \notin DOMAIN results[j]

\* evaluate has stopped submitting.
Stopped == mpc \in {"release", "gather", "returned"}

\* C14: in batch mode, an instance of a later batch is put on the queue
\* (and so built or run) only when every instance of the batch before it
\* has a result and one of these is not an error; and evaluate stops
\* submitting only when no batch is left or the last one submitted has
\* nothing but errors.
C14_BatchStopsAfterAllErrors ==
    batch_mode =>
        \A i \in Instances :
            i > max_workers =>
                /\ (Submitted(i) \/ events[i] # <<>>) =>
                       /\ PreviousBatch(i) \subseteq DOMAIN results
                       /\ HasNonError(PreviousBatch(i))
                /\ (Stopped /\ ~Submitted(i)) =>
                       ~ ( /\ PreviousBatch(i) \subseteq DOMAIN results
                           /\ HasNonError(PreviousBatch(i)) )

\* Batch mode has stopped after a first batch of errors only, the next
\* batch not submitted.
C14_Witness ==
    /\ batch_mode
    /\ mpc = "returned"
    /\ Batch(1) \subseteq DOMAIN results
    /\ ~HasNonError(Batch(1))
    /\ \E i \in Instances : i > max_workers /\ ~Submitted(i) /\ events[i] = <<>>

\* =====================================================================
\* Claims about the classifier (produce.py, gather_results)

IsReport(res) == "tests" \in DOMAIN res

\* The node ids of the records of a report with one of the outcomes.
Ids(rep, outcomes) ==
    { n \in NodeIds : \E k \in 1..Len(rep.tests) :
          rep.tests[k].nodeid = n /\ rep.tests[k].outcome \in outcomes }

PrePass == Ids(pre_golden_round_result, {"passed", "skipped"})
PreFail == Ids(pre_golden_round_result, {"failed", "error"})
PostPass == Ids(golden_round_result, {"passed", "skipped"})
PostFail == Ids(golden_round_result, {"failed", "error"})

\* The ids as emitted for the post-round report's root.
Emitted(S) ==
    IF golden_round_result.root \in {NoRoot, <<"/workspace">>} THEN S
    ELSE { golden_round_result.root \o n : n \in S }

BothReports ==
    cpc = "done" /\ IsReport(pre_golden_round_result) /\ IsReport(golden_round_result)

C16_FourSetsAreDisjoint ==
    (cpc = "done" /\ "f2p" \in DOMAIN result_entry) =>
        /\ result_entry.f2p \cap result_entry.p2p = {}
        /\ result_entry.f2p \cap result_entry.f2f = {}
        /\ result_entry.f2p \cap result_entry.p2f = {}
        /\ result_entry.p2p \cap result_entry.f2f = {}
        /\ result_entry.p2p \cap result_entry.p2f = {}
        /\ result_entry.f2f \cap result_entry.p2f = {}

PreErrorPostReport ==
    /\ cpc = "done"
    /\ "error" \in DOMAIN pre_golden_round_result
    /\ IsReport(golden_round_result)

MissingFromReport(t) ==
    /\ \E k \in 1..Len(tests) : tests[k] = t
    /\ \A k \in 1..Len(pytest_report.tests) : pytest_report.tests[k].nodeid # t

\* C19: each requested test id that does not occur in the report is marked
\* false in the short result map and, when the full report is asked for,
\* has a synthesized record with outcome error appended, also when the
\* report has as many records as tests were requested, or more.
C19_MissingTestsAreReconciled ==
    (gpc = "done" /\ gathered.kind = "return") =>
        \A t \in NodeIds :
            MissingFromReport(t) =>
                /\ t \in DOMAIN gathered.val.short_results
                /\ ~gathered.val.short_results[t]
                /\ ~short =>
                       \E k \in 1..Len(gathered.val.tests) :
                           /\ gathered.val.tests[k].nodeid = t
                           /\ gathered.val.tests[k].outcome = "error"

FailedCollectors ==
    IF "collectors" \in DOMAIN pytest_report
    THEN { pytest_report.collectors[k] : k \in
              { k \in 1..Len(pytest_report.collectors) :
                    pytest_report.collectors[k].outcome = "failed" } }
    ELSE {}

HasImportFailure ==
    \E c \in FailedCollectors : c.longrepr \in {"ModuleNotFoundError", "ImportError"}

\* C20: a failed collector with an import or module-resolution error makes
\* gather_results raise, whatever ignore_collector_errors and the requested
\* tests are (an empty list included); failed collectors without such an
\* error make it raise exactly when ignore_collector_errors is false.
C20_CollectorFailuresRaise ==
    gpc = "done" =>
        /\ HasImportFailure => gathered.kind = "raise"
        /\ (FailedCollectors # {} /\ ~HasImportFailure) =>
               (gathered.kind = "raise" <=> ~ignore_collector_errors)

\* =====================================================================
\* Claims about get_image_name and consistent_hash, checked under SpecHash.

\* The keys of either spec that are not install, test_cmd or eval_commands.
IdentityKeys ==
    (DOMAIN spec_a \cup DOMAIN spec_b) \ {"install", "test_cmd", "eval_commands"}

\* The two specs differ in nothing but install, test_cmd and eval_commands.
OnlyCommandsDiffer ==
    \A k \in IdentityKeys :
        /\ k \in DOMAIN spec_a \cap DOMAIN spec_b
        /\ spec_a[k] = spec_b[k]

\* C21: for any repository and any two specs that differ only in the value
\* or the presence of install, test_cmd and eval_commands, get_image_name
\* returns the same image name.
C21_SameNameWhenOnlyCommandsDiffer ==
    (hpc = "done" /\ OnlyCommandsDiffer) => name_a = name_b

\* Two specs with different test commands, one of them with an install
\* command and eval commands, have got one name.
C21_Witness ==
    /\ hpc = "done"
    /\ OnlyCommandsDiffer
    /\ spec_a["test_cmd"] # spec_b["test_cmd"]
    /\ "install" \in DOMAIN spec_a /\ "install" \notin DOMAIN spec_b
    /\ "eval_commands" \in DOMAIN spec_a /\ "eval_commands" \notin DOMAIN spec_b
    /\ "packages" \in DOMAIN spec_a
    /\ name_a = name_b

\* Some field other than install, test_cmd and eval_commands has different
\* values in the two specs.
IdentityValueDiffers ==
    \E k \in IdentityKeys :
        /\ k \in DOMAIN spec_a \cap DOMAIN spec_b
        /\ spec_a[k] # spec_b[k]

\* C22: two specs that differ in the value of a field other than install,
\* test_cmd and eval_commands have different canonical forms, hence
\* different identities, also when a dict is replaced by the list of its
\* key/value pairs or a set by the list of its elements.
C22_OtherFieldChangesIdentity ==
    (hpc = "done" /\ IdentityValueDiffers) => name_a.hash # name_b.hash

\* =====================================================================
\* Claims about the spec dict across build_docker_image_from_specs.

\* C23: build_docker_image_from_specs never modifies the spec dict it is
\* given: every spec dict, one with a non-empty pre_install list included,
\* and the image name get_image_name gives for it are at all times what
\* they were before the first call.
C23_BuildLeavesSpecAndNameUnchanged ==
    \A sid \in SpecIds :
        /\ spec_dicts[sid] = InitialSpecDicts[sid]
        /\ \A r \in Repos :
               GetImageName(r, spec_dicts[sid]) = GetImageName(r, InitialSpecDicts[sid])

\* =====================================================================
\* Claims about the locks of different image names, checked under Spec.

\* C24: a task that waits for the lock of its image name goes on as soon as
\* nobody holds the lock of that name, whoever holds the locks of the other
\* names; builds of two different names can be in flight together.
C24_OtherNamesDoNotBlock ==
    \A t \in Tasks :
        (bpc[t] = "lock" /\ image_build_locks[NameOf(t)] = NoTask)
            => ENABLED Acquire(t)

\* Builds for two different image names are in flight at the same time.
C24_Witness ==
    \E t1, t2 \in Tasks :
        /\ bpc[t1] = "streaming"
        /\ bpc[t2] = "streaming"
        /\ NameOf(t1) # NameOf(t2)
        /\ bsteps[t1].acquired /\ bsteps[t2].acquired

\* =====================================================================
\* Claims about the order of events within one instance, checked under
\* SpecEval.

\* C25: within one instance, the container is created only after the build
\* call of run_instance has returned the image; the report is parsed only
\* after the container has exited; the result is recorded only after
\* run_instance is over, a result with tests only after the report was
\* parsed; and an instance whose build call has raised has no container.
C25_BuildThenRunThenReport ==
    \A i \in Instances :
        /\ Happened(i, "create") => Before(i, "image", "create")
        /\ Happened(i, "parse") => Before(i, "exit", "parse")
        /\ (i \in DOMAIN results /\ "tests" \in DOMAIN results[i])
               => Happened(i, "parse")
        /\ \A w \in Tasks :
               /\ (witem[w] = i /\ wpc[w] \in {"build", "run"})
                      => i \notin DOMAIN results
               /\ (witem[w] = i /\ bpc[w] = "done" /\ bret[w].kind = "raise")
                      => ~Happened(i, "create")

\* evaluate has returned; one instance went through build, container and
\* report to a result with tests, another one's build raised and it has an
\* error record and never had a container.
C25_Witness ==
    /\ mpc = "returned"
    /\ \E i, j \in Instances :
           /\ i \in DOMAIN results /\ "tests" \in DOMAIN results[i]
           /\ Happened(i, "image") /\ Happened(i, "create")
           /\ Happened(i, "exit") /\ Happened(i, "parse")
           /\ j \in DOMAIN results /\ "error" \in DOMAIN results[j]
           /\ ~Happened(j, "image") /\ ~Happened(j, "create")

\* =====================================================================
\* Claims about the generated entrypoint, checked under SpecEntry.

\* C26: the patches are applied in the lexical order of their file names,
\* none skipped; and once a patch has failed to apply, the install command,
\* the eval commands and the test command are not run and the script's exit
\* status is not zero.
C26_PatchFailureAbortsEntrypoint ==
    /\ \A k \in 1..Len(applied) :
           \A i \in 0..(num_patches - 1) :
               LexLess(PatchFileName(i), PatchFileName(applied[k]))
                   => \E j \in 1..(k - 1) : applied[j] = i
    /\ patch_failed =>
           /\ ran = <<>>
           /\ epc = "exited" => exit_code # 0

\* =====================================================================
\* Claims about run_evaluate's report, checked under SpecReport.

\* The instances the report lists as errors.
ListedAsError == { json_output.errors_instances[k] :
                      k \in 1..Len(json_output.errors_instances) }

\* C27: in the report of run_evaluate every instance with a result is
\* counted in exactly one of resolved, unresolved and errors, and the three
\* counts add up to total; it is counted in errors if and only if its
\* result is an error record, and in resolved if and only if it has no
\* error and every entry of its test map is true.
C27_ReportCountsEveryInstanceOnce ==
    kpc = "done" =>
        /\ json_output.total = Cardinality(DOMAIN returned_results)
        /\ json_output.resolved + json_output.unresolved + json_output.errors
               = json_output.total
        /\ json_output.errors = Len(json_output.errors_instances)
        /\ json_output.errors = Cardinality(ListedAsError)
        /\ json_output.resolved = Cardinality(DOMAIN json_output.resolved_instances)
        /\ json_output.unresolved = Cardinality(DOMAIN json_output.unresolved_instances)
        /\ ListedAsError \cap DOMAIN json_output.resolved_instances = {}
        /\ ListedAsError \cap DOMAIN json_output.unresolved_instances = {}
        /\ DOMAIN json_output.resolved_instances
               \cap DOMAIN json_output.unresolved_instances = {}
        /\ \A i \in DOMAIN returned_results :
               /\ i \in ListedAsError \cup DOMAIN json_output.resolved_instances
                                      \cup DOMAIN json_output.unresolved_instances
               /\ i \in ListedAsError <=> "error" \in DOMAIN returned_results[i]
               /\ i \in DOMAIN json_output.resolved_instances <=>
                      /\ "error" \notin DOMAIN returned_results[i]
                      /\ \A n \in DOMAIN returned_results[i].tests :
                             returned_results[i].tests[n] = TRUE

\* A report with an error, a resolved instance with two tests and an
\* unresolved instance with one test passed and one failed.
C27_Witness ==
    /\ kpc = "done"
    /\ json_output.errors = 1
    /\ json_output.resolved = 1
    /\ json_output.unresolved = 1
    /\ \E i \in DOMAIN json_output.resolved_instances :
           Cardinality(DOMAIN returned_results[i].tests) = 2
    /\ \E i \in DOMAIN json_output.unresolved_instances :
           \E n, m \in DOMAIN returned_results[i].tests :
               returned_results[i].tests[n] /\ ~returned_results[i].tests[m]

\* =====================================================================
\* Claims about a build that times out, checked under SpecEval.

\* The message of a build timeout under evaluate's client.
BuildTimeoutText == <<"Build timeout after", EvaluateTimeout, "seconds.">>

\* C28: a build call that ends by the client's timeout raises 'Build
\* timeout after <configured duration> seconds.' and does not keep the lock;
\* an instance recorded with that error has the message in the build.log of
\* the directory that get_image_name names for its repo and spec.
C28_BuildTimeoutIsLoggedAndRecorded ==
    /\ \A w \in Tasks :
           (bpc[w] = "done" /\ bret[w].kind = "raise"
                /\ bret[w].val[1] = "Build timeout after")
               => /\ bret[w].val = BuildTimeoutText
                  /\ image_build_locks[NameOf(w)] # w
    /\ \A i \in Instances :
           (i \in DOMAIN results /\ "error" \in DOMAIN results[i]
                /\ results[i].error[1] = "Build timeout after")
               => /\ results[i].error = BuildTimeoutText
                  /\ <<GetImageName(InstanceRepo(i), spec_dicts[InstanceSpec(i)]),
                       BuildTimeoutText>> \in build_logs

\* =====================================================================
\* Claims about an empty report file, checked under SpecGather.

\* C29: for an empty report file gather_results raises and returns
\* nothing: the error about the report machinery when test_err.txt is empty
\* too, an error that carries the text of test_err.txt when it has one.
C29_EmptyReportAlwaysRaises ==
    (gpc = "done" /\ pytest_report = [empty |-> TRUE]) =>
        /\ gathered.kind = "raise"
        /\ test_err = <<>> =>
               gathered.val = <<"Exception: Error while generating the test reports. Are you running pytest using --json-report?">>
        /\ test_err # <<>> =>
               /\ gathered.val[1] = "Exception: Error while generating the test reports."
               /\ SubSeq(gathered.val, 2, Len(gathered.val)) = test_err

\* gather_results has raised for an empty report beside a test_err.txt with
\* a text, with tests requested.
C29_Witness ==
    /\ gpc = "done"
    /\ pytest_report = [empty |-> TRUE]
    /\ Len(test_err) = 2
    /\ tests # <<>>
    /\ gathered.kind = "raise"
    /\ Len(gathered.val) = 3

\* =====================================================================
\* Claims about the chunks of batch mode, checked under SpecEval.

\* The number of the chunk of instance i, from 0.
ChunkOf(i) == (i - 1) \div max_workers

InstancesOf(c) == { i \in Instances : ChunkOf(i) = c }

\* Put on the queue or taken by a worker, and without a result yet.
Pending == { i \in Instances : Submitted(i) /\ i \notin DOMAIN results }

AllInError(c) ==
    /\ InstancesOf(c) \subseteq DOMAIN results
    /\ \A i \in InstancesOf(c) : "error" \in DOMAIN results[i]

\* C30: in batch mode an instance is put on the queue or started only when
\* every instance of the chunks before its own has a result; the instances
\* waiting or in work are of one chunk and at most max_workers; and when
\* evaluate has returned and no chunk has errors only, every instance of
\* the dataset has a result.
C30_ChunksRunOneAfterAnother ==
    batch_mode =>
        /\ \A i, j \in Instances :
               (ChunkOf(j) < ChunkOf(i) /\ (Submitted(i) \/ events[i] # <<>>)) =>
                   j \in DOMAIN results
        /\ \A i, j \in Pending : ChunkOf(i) = ChunkOf(j)
        /\ Cardinality(Pending) <= max_workers
        /\ Len(SelectSeq(queue, LAMBDA x : x # NoInstance)) <= max_workers
        /\ (mpc = "returned" /\ \A i \in Instances : ~AllInError(ChunkOf(i))) =>
               Instances \subseteq DOMAIN results

\* Batch mode has returned with a result for every instance, one of them an
\* error in a chunk that has another result too, after more than one chunk.
C30_Witness ==
    /\ batch_mode
    /\ mpc = "returned"
    /\ Instances \subseteq DOMAIN results
    /\ \A i \in Instances : ~AllInError(ChunkOf(i))
    /\ \E i \in Instances : "error" \in DOMAIN results[i]
    /\ \E i, j \in Instances : ChunkOf(i) # ChunkOf(j)

\* =====================================================================
\* Claims about the pass and fail sets of the classifier, checked under
\* SpecClassify.

\* The entry of an instance id that is in both maps, the post-round result
\* being a report.
SetsEmitted ==
    /\ cpc = "done"
    /\ IsReport(golden_round_result)
    /\ "absent" \notin DOMAIN pre_golden_round_result

\* What the entry has when the post-round fail set is fail and the
\* pre-round one is prefail, the pass sets being the passed or skipped ids.
EntryHasSets(prefail, fail) ==
    IF "error" \in DOMAIN pre_golden_round_result
    THEN /\ result_entry.f2p = Emitted(PostPass)
         /\ result_entry.f2f = Emitted(fail)
    ELSE /\ result_entry.f2p = Emitted(prefail \cap PostPass)
         /\ result_entry.p2p = Emitted(PrePass \cap PostPass)
         /\ result_entry.f2f = Emitted(prefail \cap fail)
         /\ result_entry.p2f = Emitted(PrePass \cap fail)

Extracted == cpc \in {"done", "raised"} /\ IsReport(golden_round_result)

\* The crash text of a failed record by stage: call, else setup, else
\* teardown, else none.
PhaseCrashText(r) ==
    IF r.crash \in {"call", "setup+call", "call+teardown"} THEN "call crash"
    ELSE IF r.crash = "setup" THEN "setup crash"
    ELSE IF r.crash = "teardown" THEN "teardown crash"
    ELSE ""

\* C32: the extraction does not raise; the crash details have an entry for
\* the node ids of the failed and error records and for no other; the entry
\* of a failed record is the crash text of its call stage if it has one,
\* else that of its setup stage, else that of its teardown stage, else the
\* empty text.
C32_CrashTextByPhase ==
    Extracted =>
        /\ cpc = "done"
        /\ crash_details.bound
        /\ DOMAIN crash_details.val = PostFail
        /\ \A k \in 1..Len(golden_round_result.tests) :
               LET r == golden_round_result.tests[k] IN
               ( /\ r.outcome = "failed"
                 /\ \A j \in (k + 1)..Len(golden_round_result.tests) :
                        golden_round_result.tests[j].nodeid # r.nodeid )
               => crash_details.val[r.nodeid] = PhaseCrashText(r)

\* What the visit of an instance id gave: an entry, none, or the exception
\* that ended gather_results.
OutcomeOfVisit ==
    IF cpc = "raised" THEN [raised |-> "UnboundLocalError"] ELSE result_entry

\* What the visit of an instance id with these results gives when no id
\* was visited before it.
OutcomeAlone(pre, post) ==
    IF IsAbsent(post) \/ IsAbsent(pre) THEN NoResult
    ELSE IF "error" \in DOMAIN post THEN ErrorOnly(post)
    ELSE LET x == extract_crash_details_from_report(post) IN
         IF x.kind = "return" THEN Rebase(ResultEntry(pre, post, x.val), post.root)
         ELSE [raised |-> "UnboundLocalError"]

\* C36: what gather_results stores for an instance id is a function of the
\* two results of that id: it is what the visit gives when the id is the
\* only one, whatever ids were visited before it, also when the extraction
\* of the crash details raises for it.
C36_EntryDependsOnOwnResultsOnly ==
    cpc \in {"done", "raised"} =>
        OutcomeOfVisit = OutcomeAlone(pre_golden_round_result, golden_round_result)

\* =====================================================================
\* Claims about the rollback of patch_codes.py, checked under SpecEntry.

\* C33: when a patch fails to apply, the patches applied before it, and no
\* other, are reverse-applied, the last applied first; the rollback goes
\* through these patches only, not through the failed one or a later one.
C33_RollbackReversesAppliedPatches ==
    patch_failed =>
        /\ reverted = Reverse(applied)
        /\ rollback_tried = Reverse(applied)

\* =====================================================================
\* Claims about the entrypoint's test command, checked under SpecScript.
\* =====================================================================

\* C34: for every instance, one with no target test ids included, the
\* formatted test command has the structured-report option, and an instance
\* without target tests ends with a result (possibly empty), not with an
\* error about the missing report.
C34_ReportFlagAlwaysEnabled ==
    /\ fpc # "format" => HasJsonReport(test_cmd.flags)
    /\ (tests = <<>> /\ gpc = "done") => gathered.kind = "return"

\* C35: the per-test timeout given to the test command is
\* min(floor(T/2), UNITEST_TIMEOUT_MAX), positive and at most T/2, and an
\* instance with a test that hangs is listed as unresolved, not as an error.
C35_HangingTestIsCutOff ==
    /\ (fpc # "format" /\ tests # <<>>) =>
           /\ test_cmd.timeout =
                  <<MinOf(container_timeout \div 2, unitest_timeout_max)>>
           /\ test_cmd.timeout[1] > 0
           /\ 2 * test_cmd.timeout[1] <= container_timeout
    /\ (hung /\ kpc = "done") =>
           /\ 1 \in DOMAIN json_output.unresolved_instances
           /\ json_output.errors_instances = <<>>

\* C40: an instance listed as resolved has every requested test id in its
\* result map, with a passing value.
C40_ResolvedHasEveryRequestedTest ==
    (fpc = "recorded" /\ kpc = "done" /\ 1 \in DOMAIN json_output.resolved_instances) =>
        \A k \in 1..Len(tests) :
            /\ tests[k] \in DOMAIN returned_results[1].tests
            /\ returned_results[1].tests[tests[k]]

\* =====================================================================
\* Claim about the image names of different repositories, checked under
\* SpecRepo.
\* =====================================================================

\* C37: two different repository names with the same spec never get the
\* same image name, names that differ only in letter case or in the place
\* of '/' and '-' included.
C37_ImageNameInjectiveInRepo ==
    (hpc = "done" /\ spec_a = spec_b /\ repo_name # repo_other) => name_a # name_b

\* =====================================================================
\* Claim about the release of the build lock, checked under SpecBuildFair.
\* =====================================================================

\* C38: a task that is not inside build_docker_image_from_specs holds no
\* lock, whichever way it left the call; and every task that waits for the
\* lock of its image name eventually has it, and eventually returns or
\* raises.
C38_LockReleasedAndWaitersProceed ==
    /\ [](\A t \in Tasks :
             bpc[t] \in {"idle", "done"} =>
                 \A n \in DOMAIN image_build_locks : image_build_locks[n] # t)
    /\ \A t \in Tasks : (bpc[t] = "lock") ~> bsteps[t].acquired
    /\ \A t \in Tasks :
           (bpc[t] = "lock") ~> (bpc[t] = "done" /\ bret[t].kind \in {"return", "raise"})

\* A task waits for the lock of its name while the other task, which has
\* built the image, is pushing it.
C38_Witness ==
    \E t, u \in Tasks :
        /\ t # u
        /\ bpc[t] = "lock"
        /\ image_build_locks[NameOf(t)] = u
        /\ bpc[u] = "push"

\* =====================================================================
\* Claim about the termination of evaluate, checked under SpecEvalFair.
\* =====================================================================

\* The workers that hold an item they have not yet marked done.
Holding == { w \in Tasks : witem[w] # NoInstance }

====
